---- MODULE Spec2Model ----
(***************************************************************************)
(* A model of the APEX-2026 pipeline.                                      *)
(*                                                                         *)
(*   MarketScanner (src/src/ingestors/MarketScanner.ts): the life cycle of *)
(*   the Geyser stream (start, stop, reconnect with backoff) and the       *)
(*   ingestion path (marker filter, dedup cache, decode, emission).        *)
(*   Guard (src/src/detectors/Guard.ts): analyzeToken and its five checks. *)
(*                                                                         *)
(* JavaScript runs one callback at a time, so every action below is the    *)
(* code that runs between two suspension points (an await, a timer, a      *)
(* stream event).  Amounts of SOL are integers (whole SOL for the          *)
(* scanner, tenths of a SOL for the vault balance Guard reads); time is    *)
(* counted in ticks.                                                       *)
(***************************************************************************)
EXTENDS Integers, Sequences, FiniteSets, TLC

\* ------------------------------------------------------------------ bounds
\* Bounds of the life-cycle specification (Spec).
LifeMaxStreams == 2
LifeMaxTimers == 2
LifeMaxConnecting == 2
LifeNumSigs == 1
LifeMaxCacheSize == 1
LifeMaxInflight == 1
LifeMaxTime == 1
LifeMaxStreak == 7
\* Bounds of the ingestion specification (DedupSpec).
DedupMaxStreams == 1
DedupMaxTimers == 1
DedupMaxConnecting == 1
DedupNumSigs == 3
DedupMaxCacheSize == 2
DedupMaxInflight == 2
DedupMaxTime == 2
DedupMaxStreak == 1

\* the bounds of CoreSpec and ScoreSpec
CoreNumSigs == 1
CoreMaxCalls == 2
CoreMaxProcessed == 2
ScoreMaxRisk == 100
PumpNumSigs == 1002
PumpMaxListeners == 1

\* ------------------------------------------------------- program constants
InitialBackoffMs == 1000
MaxBackoffMs == 30000
DefaultFastCheckThreshold == 100
DefaultCacheSize == 10000
DefaultCacheTtlMs == 3600000

Undefined == -1

Min2(a, b) == IF a < b THEN a ELSE b

VARIABLES
  \* MarketScanner fields
  geyserEndpoint,        \* TRUE when an endpoint is configured
  geyserStream,          \* state of the stream this.geyserStream refers to, or "null"
  processedPools,        \* the dedup Map, in insertion order: <<[poolId, timestamp]>>
  fastCheckThreshold,
  cacheSize,
  cacheTtlMs,
  isRunning,
  cacheCleanupInterval,  \* TRUE when the field holds a timer handle
  reconnectBackoffMs,
  \* the runtime around the scanner
  orphanStreams,         \* streams no field refers to any more, by state
  liveIntervals,         \* setInterval timers not cleared
  reconnectTimers,       \* pending setTimeout callbacks of scheduleReconnect
  connecting,            \* startGeyserStream calls suspended at their await, by caller
  inflight,              \* processNewPool calls suspended at getTransaction, per signature
  now,                   \* Date.now()
  \* observation
  emits,                 \* the events the last step emitted, in order
  lastOp,                \* the last step taken
  emitCount,             \* newToken emissions per signature since its record was inserted
  streak,                \* delays scheduled since the backoff was last reset
  seenSigs,              \* signatures 1 .. seenSigs have been delivered at least once
  lastDelay,             \* the delay of the last scheduled reconnect
  stopped,               \* stop() has completed and start() was not called since
  B,                     \* the bounds of the specification being checked
  \* one Guard.analyzeToken call
  gpc,                   \* the await the call is suspended at, "idle", "done" or "threw"
  g,                     \* its local variables
  report,                \* the SecurityReport it returned
  \* DecisionCore fields
  minLiquidity,
  maxRiskScore,
  enableFastCheck,
  tokensProcessed,
  tokensAccepted,
  tokensRejected,
  \* the runtime around the core
  calls,                 \* processToken calls suspended at guard.validateToken, per call
  \* observation
  coreEmits,             \* the events the core emitted in the last step, in order
  coreOp,                \* the last step of the core: its call and the report it got
  \* one application of calculateFinalScore and determinePriority
  args,                  \* the arguments
  result,                \* the values returned, or NoResult
  \* PumpScanner fields
  processedSignatures,   \* the dedup Set, in insertion order
  subscriptionId,        \* 0 for null
  pumpIsRunning,         \* PumpScanner's isRunning
  \* the runtime around PumpScanner
  logsListeners,         \* onLogs callbacks registered on wsConnection
  \* observation
  pumpOp,                \* the last step of PumpScanner
  seenSignatures         \* signatures 1 .. seenSignatures have been added at least once

scannerFields == <<geyserEndpoint, geyserStream, processedPools, fastCheckThreshold,
                   cacheSize, cacheTtlMs, isRunning, cacheCleanupInterval,
                   reconnectBackoffMs>>
runtimeVars == <<orphanStreams, liveIntervals, reconnectTimers, connecting, inflight, now>>
ghostVars == <<emits, lastOp, emitCount, streak, seenSigs, lastDelay, stopped, B>>
scannerVars == <<scannerFields, runtimeVars, ghostVars>>
guardVars == <<gpc, g, report>>
coreFields == <<minLiquidity, maxRiskScore, enableFastCheck, tokensProcessed,
                tokensAccepted, tokensRejected>>
scoreVars == <<args, result>>
coreVars == <<coreFields, calls, coreEmits, coreOp, scoreVars>>
pumpVars == <<processedSignatures, subscriptionId, pumpIsRunning, logsListeners, pumpOp,
              seenSignatures>>

\* --------------------------------------------------------------- streams
\* A stream the client created is "open" (delivers data), "closing" (cancelled:
\* no more data, its 'error' and 'end' handlers can still run), "erred" ('error'
\* has run, 'end' can still run) or "dead" (no handler will run again).
LiveStates == {"open", "closing", "erred"}

NoOrphans == [s \in LiveStates |-> 0]

NumLive == (IF geyserStream \in LiveStates THEN 1 ELSE 0)
           + orphanStreams["open"] + orphanStreams["closing"] + orphanStreams["erred"]

Orphaned(orph, st) ==
  IF st \in LiveStates THEN [orph EXCEPT ![st] = @ + 1] ELSE orph

\* ---------------------------------------------------------------- events
Ev(name) == [ev |-> name, sig |-> 0, liq |-> 0]
MarketEv(name, sig, liq) == [ev |-> name, sig |-> sig, liq |-> liq]
Op(name) == [name |-> name, sig |-> 0]
OpSig(name, sig) == [name |-> name, sig |-> sig]


\* ------------------------------------------------------------ constructor
\* `options.x || d`: an option that is absent or 0 gives the default.
OrDefault(v, d) == IF v = Undefined \/ v = 0 THEN d ELSE v

constructor(options) ==
  [fastCheckThreshold |-> OrDefault(options.fastCheckThreshold, DefaultFastCheckThreshold),
   cacheSize |-> OrDefault(options.cacheSize, DefaultCacheSize),
   cacheTtlMs |-> OrDefault(options.cacheTtlMs, DefaultCacheTtlMs)]

Sigs == 1 .. B.numSigs
Liquidities == {99, 100}

InitScanner(bounds, optionSet, endpoints) ==
  /\ B = bounds
  /\ \E options \in optionSet :
       LET c == constructor(options) IN
         /\ fastCheckThreshold = c.fastCheckThreshold
         /\ cacheSize = c.cacheSize
         /\ cacheTtlMs = c.cacheTtlMs
  /\ geyserEndpoint \in endpoints
  /\ geyserStream = "null"
  /\ processedPools = <<>>
  /\ isRunning = FALSE
  /\ cacheCleanupInterval = FALSE
  /\ reconnectBackoffMs = InitialBackoffMs
  /\ orphanStreams = NoOrphans
  /\ liveIntervals = 0
  /\ reconnectTimers = 0
  /\ connecting = [start |-> 0, reconnect |-> 0]
  /\ inflight = [s \in 1 .. bounds.numSigs |-> 0]
  /\ now = 0
  /\ emits = <<>>
  /\ lastOp = Op("new")
  /\ emitCount = [s \in 1 .. bounds.numSigs |-> 0]
  /\ streak = 0
  /\ seenSigs = 0
  /\ lastDelay = 0
  /\ stopped = FALSE

\* ------------------------------------------------------------ life cycle
NumConnecting == connecting.start + connecting.reconnect

\* scheduleReconnect, line 315
\* A backoff that doubles without the ceiling of line 315.
NextBackoffUncapped(b) == b * 2

NextBackoff(b) == Min2(b * 2, MaxBackoffMs)

\* scheduleReconnect(): `running` is this.isRunning when it is called.
scheduleReconnect(running) ==
  IF ~running
    THEN UNCHANGED <<reconnectBackoffMs, reconnectTimers, streak, lastDelay>>
    ELSE /\ reconnectTimers < B.maxTimers
         /\ streak < B.maxStreak
         /\ lastDelay' = reconnectBackoffMs
         /\ reconnectBackoffMs' = NextBackoff(reconnectBackoffMs)
         /\ reconnectTimers' = reconnectTimers + 1
         /\ streak' = streak + 1

\* start(), up to the await of startGeyserStream.
start ==
  /\ isRunning \/ ~geyserEndpoint \/ NumConnecting < B.maxConnecting
  /\ lastOp' = Op("start")
  /\ stopped' = FALSE
  /\ IF isRunning
       THEN emits' = <<>> /\ UNCHANGED connecting
       ELSE IF ~geyserEndpoint
         THEN emits' = <<Ev("error")>> /\ UNCHANGED connecting
         ELSE /\ emits' = <<>>
              /\ connecting' = [connecting EXCEPT !.start = @ + 1]
  /\ UNCHANGED <<scannerFields, orphanStreams, liveIntervals, reconnectTimers,
                 inflight, now, emitCount, streak, lastDelay, seenSigs, B, guardVars, coreVars, pumpVars>>

\* startGeyserStream() from its await on, and, when start() called it, the rest
\* of start().  ok: the proto loads and client.Subscribe returns a stream.
startGeyserStream(kind, ok) ==
  /\ connecting[kind] > 0
  /\ connecting' = [connecting EXCEPT ![kind] = @ - 1]
  /\ lastOp' = Op(IF ok THEN "subscribe" ELSE "connectFailed")
  /\ IF ok
       THEN /\ NumLive < B.maxStreams
            /\ orphanStreams' = Orphaned(orphanStreams, geyserStream)
            /\ geyserStream' = "open"
            /\ reconnectBackoffMs' = InitialBackoffMs
            /\ streak' = 0
            /\ UNCHANGED <<reconnectTimers, lastDelay>>
       ELSE /\ scheduleReconnect(isRunning)
            /\ UNCHANGED <<geyserStream, orphanStreams>>
  /\ IF kind = "start"
       THEN /\ liveIntervals < B.maxIntervals
            /\ cacheCleanupInterval' = TRUE
            /\ liveIntervals' = liveIntervals + 1
            /\ isRunning' = TRUE
            /\ emits' = (IF ok THEN <<>> ELSE <<Ev("error")>>) \o <<Ev("connected")>>
       ELSE /\ emits' = (IF ok THEN <<>> ELSE <<Ev("error")>>)
            /\ UNCHANGED <<cacheCleanupInterval, liveIntervals, isRunning>>
  /\ UNCHANGED <<geyserEndpoint, processedPools, fastCheckThreshold, cacheSize,
                 cacheTtlMs, inflight, now, emitCount, stopped, seenSigs, B, guardVars, coreVars, pumpVars>>

\* stream.cancel()
Cancelled(st) == IF st = "open" THEN "closing" ELSE st

StopName == IF lastOp.name \in {"stop", "stopAgain"} THEN "stopAgain" ELSE "stop"

\* What stop() does once it has found the scanner running.
StopTeardown ==
  /\ geyserStream' = "null"
  /\ orphanStreams' = Orphaned(orphanStreams, Cancelled(geyserStream))
  /\ cacheCleanupInterval' = FALSE
  /\ liveIntervals' = IF cacheCleanupInterval THEN liveIntervals - 1 ELSE liveIntervals
  /\ isRunning' = FALSE
  /\ emits' = <<Ev("disconnected")>>

\* A stop() without the early return of line 137.
StopGuardAbsent == FALSE

StopGuard == ~isRunning

\* No start() is in progress, and every open stream and every running interval is
\* one the scanner holds the handle of, so that a teardown reaches all of them.
Reachable ==
  /\ connecting.start = 0
  /\ orphanStreams["open"] = 0
  /\ liveIntervals = (IF cacheCleanupInterval THEN 1 ELSE 0)

stop ==
  /\ lastOp' = Op(StopName)
  /\ stopped' = (stopped \/ Reachable)
  /\ IF StopGuard
       THEN /\ emits' = <<>>
            /\ UNCHANGED <<geyserStream, orphanStreams, cacheCleanupInterval,
                           liveIntervals, isRunning>>
       ELSE StopTeardown
  /\ UNCHANGED <<geyserEndpoint, processedPools, fastCheckThreshold, cacheSize,
                 cacheTtlMs, reconnectBackoffMs, reconnectTimers, connecting,
                 inflight, now, emitCount, streak, lastDelay, seenSigs, B, guardVars, coreVars, pumpVars>>

\* The 'error' handler of a stream (lines 228-232).  field: the stream is the
\* one this.geyserStream refers to; otherwise an orphan in state st.
streamError(field, st) ==
  /\ st \in {"open", "closing"}
  /\ IF field
       THEN /\ geyserStream = st
            /\ geyserStream' = "erred"
            /\ UNCHANGED orphanStreams
       ELSE /\ orphanStreams[st] > 0
            /\ orphanStreams' = [orphanStreams EXCEPT ![st] = @ - 1, !["erred"] = @ + 1]
            /\ UNCHANGED geyserStream
  /\ scheduleReconnect(isRunning)
  /\ emits' = <<Ev("error")>>
  /\ lastOp' = Op("streamError")
  /\ UNCHANGED <<geyserEndpoint, processedPools, fastCheckThreshold, cacheSize,
                 cacheTtlMs, isRunning, cacheCleanupInterval, liveIntervals,
                 connecting, inflight, now, emitCount, stopped, seenSigs, B, guardVars, coreVars, pumpVars>>

\* The 'end' handler of a stream (lines 234-237).
streamEnd(field, st) ==
  /\ st \in LiveStates
  /\ IF field
       THEN /\ geyserStream = st
            /\ geyserStream' = "dead"
            /\ UNCHANGED orphanStreams
       ELSE /\ orphanStreams[st] > 0
            /\ orphanStreams' = [orphanStreams EXCEPT ![st] = @ - 1]
            /\ UNCHANGED geyserStream
  /\ scheduleReconnect(isRunning)
  /\ emits' = <<>>
  /\ lastOp' = Op("streamEnd")
  /\ UNCHANGED <<geyserEndpoint, processedPools, fastCheckThreshold, cacheSize,
                 cacheTtlMs, isRunning, cacheCleanupInterval, liveIntervals,
                 connecting, inflight, now, emitCount, stopped, seenSigs, B, guardVars, coreVars, pumpVars>>

\* The setTimeout callback of scheduleReconnect (lines 321-329), up to the
\* await of the startGeyserStream call it makes.
reconnectTimer ==
  /\ reconnectTimers > 0
  /\ reconnectTimers' = reconnectTimers - 1
  /\ IF isRunning
       THEN /\ NumConnecting < B.maxConnecting
            /\ connecting' = [connecting EXCEPT !.reconnect = @ + 1]
       ELSE UNCHANGED connecting
  /\ emits' = <<>>
  /\ lastOp' = Op("reconnectTimer")
  /\ UNCHANGED <<scannerFields, orphanStreams, liveIntervals, inflight, now,
                 emitCount, streak, lastDelay, stopped, seenSigs, B, guardVars, coreVars, pumpVars>>


\* -------------------------------------------------------------- ingestion
Keys(pools) == {pools[i].poolId : i \in 1 .. Len(pools)}

\* A lookup that finds only the record inserted last.
isPoolProcessedNewest(pools, poolId) ==
  Len(pools) > 0 /\ pools[Len(pools)].poolId = poolId

\* isPoolProcessed (lines 549-551)
isPoolProcessed(pools, poolId) == poolId \in Keys(pools)

\* markPoolProcessed (lines 556-569): the Map keeps insertion order, and
\* keys().next().value is its first key.
\* An insertion that never evicts.
markPoolProcessedUnbounded(pools, poolId, t, size) ==
  Append(pools, [poolId |-> poolId, timestamp |-> t])

\* An eviction that drops the newest record instead of the oldest.
markPoolProcessedEvictNewest(pools, poolId, t, size) ==
  LET kept == IF Len(pools) >= size /\ Len(pools) > 0
                THEN SubSeq(pools, 1, Len(pools) - 1) ELSE pools
  IN Append(kept, [poolId |-> poolId, timestamp |-> t])

markPoolProcessed(pools, poolId, t, size) ==
  LET kept == IF Len(pools) >= size /\ Len(pools) > 0 THEN Tail(pools) ELSE pools
  IN Append(kept, [poolId |-> poolId, timestamp |-> t])

\* cleanupCache (lines 584-598)
\* An expiry that already takes an entry whose age is the TTL.
ExpiredAtTtl(entry, t, ttl) == t - entry.timestamp >= ttl

Expired(entry, t, ttl) == t - entry.timestamp > ttl

cleanupCache(pools, t, ttl) == SelectSeq(pools, LAMBDA e : ~Expired(e, t, ttl))

NumInflight == LET RECURSIVE Sum(_)
                   Sum(n) == IF n = 0 THEN 0 ELSE inflight[n] + Sum(n - 1)
               IN Sum(B.numSigs)

\* emitCount follows the records: it is 0 for a signature with no record.
Counted(pools, counts) == [s \in DOMAIN counts |-> IF s \in Keys(pools) THEN counts[s] ELSE 0]

MessageShapes == {"noTransaction", "noLogs", "noMarker", "noSignature", "pool"}

CanDeliver == geyserStream = "open" \/ orphanStreams["open"] > 0

\* A handler that takes every message with a signature for a pool creation,
\* whether or not its logs hold the marker.
handleGeyserMessageWithoutMarker(shape, sig) ==
  /\ CanDeliver
  /\ sig <= seenSigs + 1
  /\ seenSigs' = IF shape \in {"pool", "noMarker"} /\ sig > seenSigs THEN sig ELSE seenSigs
  /\ IF shape \notin {"pool", "noMarker"}
       THEN /\ lastOp' = Op(shape)
            /\ UNCHANGED <<processedPools, inflight, emitCount>>
       ELSE IF isPoolProcessed(processedPools, sig)
         THEN /\ lastOp' = OpSig(IF shape = "pool" THEN "duplicate" ELSE shape, sig)
              /\ UNCHANGED <<processedPools, inflight, emitCount>>
         ELSE /\ NumInflight < B.maxInflight
              /\ lastOp' = OpSig(shape, sig)
              /\ processedPools' = markPoolProcessed(processedPools, sig, now, cacheSize)
              /\ inflight' = [inflight EXCEPT ![sig] = @ + 1]
              /\ emitCount' = Counted(processedPools', [emitCount EXCEPT ![sig] = 0])
  /\ emits' = <<>>
  /\ UNCHANGED <<geyserEndpoint, geyserStream, fastCheckThreshold, cacheSize,
                 cacheTtlMs, isRunning, cacheCleanupInterval, reconnectBackoffMs,
                 orphanStreams, liveIntervals, reconnectTimers, connecting, now,
                 streak, lastDelay, stopped, B, guardVars, coreVars, pumpVars>>

\* The 'data' handler of a stream and handleGeyserMessage (lines 216-226,
\* 257-304), up to the await of getTransaction in processNewPool.
handleGeyserMessage(shape, sig) ==
  /\ CanDeliver
  /\ sig <= seenSigs + 1
  /\ seenSigs' = IF shape = "pool" /\ sig > seenSigs THEN sig ELSE seenSigs
  /\ IF shape # "pool"
       THEN /\ lastOp' = Op(shape)
            /\ UNCHANGED <<processedPools, inflight, emitCount>>
       ELSE IF isPoolProcessed(processedPools, sig)
         THEN /\ lastOp' = OpSig("duplicate", sig)
              /\ UNCHANGED <<processedPools, inflight, emitCount>>
         ELSE /\ NumInflight < B.maxInflight
              /\ lastOp' = OpSig("pool", sig)
              /\ processedPools' = markPoolProcessed(processedPools, sig, now, cacheSize)
              /\ inflight' = [inflight EXCEPT ![sig] = @ + 1]
              /\ emitCount' = Counted(processedPools', [emitCount EXCEPT ![sig] = 0])
  /\ emits' = <<>>
  /\ UNCHANGED <<geyserEndpoint, geyserStream, fastCheckThreshold, cacheSize,
                 cacheTtlMs, isRunning, cacheCleanupInterval, reconnectBackoffMs,
                 orphanStreams, liveIntervals, reconnectTimers, connecting, now,
                 streak, lastDelay, stopped, B, guardVars, coreVars, pumpVars>>

DecodeOutcomes == {"notFound", "txFailed", "fewAccounts", "throws", "decoded"}

\* The events processNewPool emits for a decoded pool (lines 372-379).
\* A fast check for a liquidity strictly above the threshold only.
PoolEventsAboveThreshold(sig, liquiditySol, threshold) ==
  (IF liquiditySol > threshold THEN <<MarketEv("fastCheck", sig, liquiditySol)>> ELSE <<>>)
  \o <<MarketEv("newToken", sig, liquiditySol)>>

PoolEvents(sig, liquiditySol, threshold) ==
  (IF liquiditySol >= threshold THEN <<MarketEv("fastCheck", sig, liquiditySol)>> ELSE <<>>)
  \o <<MarketEv("newToken", sig, liquiditySol)>>

\* A processNewPool without its try: a fetch that throws ends the stream that
\* delivered the message.
processNewPoolUncaught(sig, outcome, liquiditySol) ==
  /\ inflight[sig] > 0
  /\ inflight' = [inflight EXCEPT ![sig] = @ - 1]
  /\ lastOp' = OpSig(outcome, sig)
  /\ emits' = CASE outcome = "decoded" -> PoolEvents(sig, liquiditySol, fastCheckThreshold)
                [] OTHER -> <<>>
  /\ emitCount' = IF outcome = "decoded" /\ isPoolProcessed(processedPools, sig)
                    THEN [emitCount EXCEPT ![sig] = Min2(@ + 1, 2)]
                    ELSE emitCount
  /\ geyserStream' = IF outcome = "throws" /\ geyserStream = "open" THEN "dead" ELSE geyserStream
  /\ UNCHANGED <<geyserEndpoint, processedPools, fastCheckThreshold, cacheSize, cacheTtlMs,
                 isRunning, cacheCleanupInterval, reconnectBackoffMs, orphanStreams,
                 liveIntervals, reconnectTimers, connecting, now, streak, lastDelay, stopped,
                 seenSigs, B, guardVars, coreVars, pumpVars>>

\* processNewPool from its await on (lines 338-384), with parsePoolTransaction:
\* what it does to the scanner and the events it emits.
processNewPoolResumed(sig, outcome, liquiditySol) ==
  /\ inflight[sig] > 0
  /\ inflight' = [inflight EXCEPT ![sig] = @ - 1]
  /\ lastOp' = OpSig(outcome, sig)
  /\ emits' = CASE outcome = "decoded" -> PoolEvents(sig, liquiditySol, fastCheckThreshold)
                [] outcome = "throws" -> <<Ev("error")>>
                [] OTHER -> <<>>
  /\ emitCount' = IF outcome = "decoded" /\ isPoolProcessed(processedPools, sig)
                    THEN [emitCount EXCEPT ![sig] = Min2(@ + 1, 2)]
                    ELSE emitCount
  /\ UNCHANGED <<scannerFields, orphanStreams, liveIntervals, reconnectTimers,
                 connecting, now, streak, lastDelay, stopped, seenSigs, B>>

\* The scanner on its own: nothing listens to its events.
processNewPool(sig, outcome, liquiditySol) ==
  /\ processNewPoolResumed(sig, outcome, liquiditySol)
  /\ UNCHANGED <<guardVars, coreVars, pumpVars>>

\* The setInterval callback of startCacheCleanup (lines 576-578).
cacheCleanupTimer ==
  /\ liveIntervals > 0
  /\ processedPools' = cleanupCache(processedPools, now, cacheTtlMs)
  /\ emitCount' = Counted(processedPools', emitCount)
  /\ emits' = <<>>
  /\ lastOp' = Op("cleanupCache")
  /\ UNCHANGED <<geyserEndpoint, geyserStream, fastCheckThreshold, cacheSize,
                 cacheTtlMs, isRunning, cacheCleanupInterval, reconnectBackoffMs,
                 runtimeVars, streak, lastDelay, stopped, seenSigs, B, guardVars, coreVars, pumpVars>>

\* Time passes.
tick ==
  /\ now < B.maxTime
  /\ now' = now + 1
  /\ emits' = <<>>
  /\ lastOp' = Op("tick")
  /\ UNCHANGED <<scannerFields, orphanStreams, liveIntervals, reconnectTimers,
                 connecting, inflight, emitCount, streak, lastDelay, stopped, seenSigs, B, guardVars, coreVars, pumpVars>>

\* ------------------------------------------------------------------ Guard
FreezePenalty == 50
ConcentrationPenalty == 30
HoneypotPenalty == 100
NoPoolPenalty == 40
LowLiquidityPenalty == 20
ConcentrationLimit == 50
LowLiquiditySol == 5
SafeLimit == 50
RiskCap == 100
TopHolders == 10

\* A vault balance is counted in tenths of a SOL; liquiditySol < n compares it
\* with n SOL.
Tenths(sol) == sol * 10

NoReport == [isSafe |-> FALSE, riskScore |-> -1, flags |-> <<>>]

Locals == [flags |-> <<>>, riskScore |-> 0, mintRenounced |-> FALSE,
           freezeDisabled |-> FALSE, top10HoldersPercent |-> 0, isHoneypot |-> FALSE,
           hasLiquidity |-> FALSE, liquiditySol |-> Undefined, lpBurnedPercent |-> 0,
           mintRead |-> "pending", honeypotRead |-> [quote |-> "pending", swap |-> "pending", simulation |-> "pending"]]

GuardIdle == gpc = "idle" /\ g = Locals /\ report = NoReport

\* --- the chain reads a call can see
\* getMint: it fails, or gives the two authorities (TRUE: the authority is set).
MintReads == [ok : {TRUE}, mintAuthority : BOOLEAN, freezeAuthority : BOOLEAN]
             \cup {[ok |-> FALSE, mintAuthority |-> FALSE, freezeAuthority |-> FALSE]}

\* Token accounts of the mint: a balance, -1 for an account getAccount reports
\* as not found or not owned by the token program, -2 for one whose read fails.
HolderReads ==
  {[rpc |-> FALSE, accounts |-> <<>>, mint |-> TRUE, supply |-> 100],
   [rpc |-> TRUE, accounts |-> <<>>, mint |-> TRUE, supply |-> 100],
   [rpc |-> TRUE, accounts |-> <<30, 21>>, mint |-> TRUE, supply |-> 100],
   [rpc |-> TRUE, accounts |-> <<20, 30>>, mint |-> TRUE, supply |-> 100],
   [rpc |-> TRUE, accounts |-> <<1, 1, 1, 1, 1, 1, 1, 1, 1, 1, 45>>, mint |-> TRUE, supply |-> 100],
   [rpc |-> TRUE, accounts |-> <<5, 5, 5, 5, 5, 5, 5, 5, 5, 5, 5>>, mint |-> TRUE, supply |-> 100],
   [rpc |-> TRUE, accounts |-> <<60, -1>>, mint |-> TRUE, supply |-> 100],
   [rpc |-> TRUE, accounts |-> <<60, -2>>, mint |-> TRUE, supply |-> 100],
   [rpc |-> TRUE, accounts |-> <<60>>, mint |-> FALSE, supply |-> 100],
   [rpc |-> TRUE, accounts |-> <<60>>, mint |-> TRUE, supply |-> 0]}

HoneypotReads == [quote : {"throws", "zero", "ok"},
                  swap : {"throws", "noTransaction", "ok"},
                  simulation : {"throws", "err", "denied", "clean"}]

\* Raydium pools: the program-accounts read, whether a pool matches the mint,
\* and the SOL vault's balance in tenths of a SOL (-2: getBalance fails).
PoolReads == [rpc : BOOLEAN, match : BOOLEAN, balance : {-2, 0, 1, 49, 50, 451}]

\* The pools read, whether one matches the mint, the supply of its LP mint (-2:
\* getMint fails), the LP tokens in the accounts of the burn addresses that were
\* read, and whether the read of a burn address failed (lines 411-426: the
\* address is skipped and what was added before stays).
LpReads ==
  {[rpc |-> FALSE, match |-> FALSE, supply |-> 0, burned |-> 0, sinkError |-> FALSE],
   [rpc |-> TRUE, match |-> FALSE, supply |-> 0, burned |-> 0, sinkError |-> FALSE],
   [rpc |-> TRUE, match |-> TRUE, supply |-> 0, burned |-> 0, sinkError |-> FALSE],
   [rpc |-> TRUE, match |-> TRUE, supply |-> -2, burned |-> 0, sinkError |-> FALSE],
   [rpc |-> TRUE, match |-> TRUE, supply |-> 100, burned |-> 0, sinkError |-> TRUE],
   [rpc |-> TRUE, match |-> TRUE, supply |-> 100, burned |-> 60, sinkError |-> TRUE],
   [rpc |-> TRUE, match |-> TRUE, supply |-> 100, burned |-> 50, sinkError |-> FALSE],
   [rpc |-> TRUE, match |-> TRUE, supply |-> 100, burned |-> 51, sinkError |-> FALSE],
   [rpc |-> TRUE, match |-> TRUE, supply |-> 100, burned |-> 90, sinkError |-> FALSE],
   [rpc |-> TRUE, match |-> TRUE, supply |-> 100, burned |-> 91, sinkError |-> FALSE],
   [rpc |-> TRUE, match |-> TRUE, supply |-> 100, burned |-> 100, sinkError |-> FALSE]}

\* --- calculateTop10HoldersPercent (lines 133-201)
RECURSIVE SumSeq(_)
SumSeq(q) == IF q = <<>> THEN 0 ELSE Head(q) + SumSeq(Tail(q))

RECURSIVE SortDesc(_)
SortDesc(q) ==
  IF q = <<>> THEN <<>>
  ELSE LET i == CHOOSE i \in 1 .. Len(q) : \A j \in 1 .. Len(q) : q[i] >= q[j]
       IN <<q[i]>> \o SortDesc(SubSeq(q, 1, i - 1) \o SubSeq(q, i + 1, Len(q)))

Slice(q, n) == SubSeq(q, 1, Min2(n, Len(q)))

calculateTop10HoldersPercent(r) ==
  IF ~r.rpc THEN 0
  ELSE IF Len(r.accounts) = 0 THEN 0
  ELSE IF \E i \in 1 .. Len(r.accounts) : r.accounts[i] = -2 THEN 0
  ELSE LET holders == SortDesc(SelectSeq(r.accounts, LAMBDA b : b > 0))
       IN IF ~r.mint THEN 0
          ELSE IF r.supply = 0 THEN 0
          ELSE (SumSeq(Slice(holders, TopHolders)) * 100) \div r.supply

\* --- detectHoneypot (lines 214-293)
\* A detection that does not read the simulation's log.
detectHoneypotWithoutLogs(r) ==
  IF r.quote = "throws" THEN TRUE
  ELSE IF r.quote = "zero" THEN TRUE
  ELSE IF r.swap = "throws" THEN TRUE
  ELSE IF r.swap = "noTransaction" THEN TRUE
  ELSE IF r.simulation = "throws" THEN TRUE
  ELSE r.simulation = "err"

detectHoneypot(r) ==
  IF r.quote = "throws" THEN TRUE
  ELSE IF r.quote = "zero" THEN TRUE
  ELSE IF r.swap = "throws" THEN TRUE
  ELSE IF r.swap = "noTransaction" THEN TRUE
  ELSE IF r.simulation = "throws" THEN TRUE
  ELSE IF r.simulation = "err" THEN TRUE
  ELSE r.simulation = "denied"

\* --- checkRaydiumLiquidity (lines 303-364)
checkRaydiumLiquidity(r) ==
  IF ~r.rpc THEN [hasLiquidity |-> FALSE, liquiditySol |-> Undefined]
  ELSE IF r.match /\ r.balance # -2
    THEN [hasLiquidity |-> TRUE, liquiditySol |-> r.balance]
    ELSE [hasLiquidity |-> FALSE, liquiditySol |-> Undefined]

\* --- calculateLPBurnedPercent (lines 374-440)
calculateLPBurnedPercent(r) ==
  IF ~r.rpc THEN 0
  ELSE IF ~r.match THEN 0
  ELSE IF r.supply = -2 THEN 0
  ELSE IF r.supply = 0 THEN 100
  ELSE (r.burned * 100) \div r.supply

\* --- analyzeToken (lines 60-125), one action per await
analyzeToken ==
  /\ gpc = "idle"
  /\ gpc' = "getMint"
  /\ g' = Locals
  /\ report' = NoReport
  /\ UNCHANGED <<scannerVars, coreVars, pumpVars>>

\* lines 66-77.  A failed getMint is an exception no handler of analyzeToken
\* catches: the call rejects.
authorityCheck(r) ==
  /\ gpc = "getMint"
  /\ IF ~r.ok
       THEN gpc' = "threw" /\ g' = [g EXCEPT !.mintRead = "failed"]
       ELSE /\ gpc' = "top10"
            /\ g' = [g EXCEPT
                 !.mintRead = "ok",
                 !.mintRenounced = ~r.mintAuthority,
                 !.freezeDisabled = ~r.freezeAuthority,
                 !.flags = (IF r.mintAuthority THEN <<"MINT_AUTHORITY_NOT_RENOUNCED">> ELSE <<>>)
                           \o (IF r.freezeAuthority THEN <<"FREEZE_AUTHORITY_NOT_DISABLED">> ELSE <<>>),
                 !.riskScore = IF r.freezeAuthority THEN @ + FreezePenalty ELSE @]
  /\ UNCHANGED <<report, scannerVars, coreVars, pumpVars>>

\* lines 80-85
concentrationCheck(r) ==
  /\ gpc = "top10"
  /\ gpc' = "honeypot"
  /\ LET percent == calculateTop10HoldersPercent(r) IN
       g' = [g EXCEPT
         !.top10HoldersPercent = percent,
         !.flags = IF percent > ConcentrationLimit THEN Append(@, "HIGH_CONCENTRATION") ELSE @,
         !.riskScore = IF percent > ConcentrationLimit THEN @ + ConcentrationPenalty ELSE @]
  /\ UNCHANGED <<report, scannerVars, coreVars, pumpVars>>

\* lines 88-92
honeypotCheck(r) ==
  /\ gpc = "honeypot"
  /\ gpc' = "liquidity"
  /\ LET isHoneypot == detectHoneypot(r) IN
       g' = [g EXCEPT
         !.honeypotRead = r,
         !.isHoneypot = isHoneypot,
         !.flags = IF isHoneypot THEN Append(@, "HONEYPOT_DETECTED") ELSE @,
         !.riskScore = IF isHoneypot THEN @ + HoneypotPenalty ELSE @]
  /\ UNCHANGED <<report, scannerVars, coreVars, pumpVars>>

\* line 100: `liquidityInfo.liquiditySol && liquidityInfo.liquiditySol < 5`;
\* a liquiditySol of 0 is falsy.
IsLowLiquidity(liquiditySol) ==
  liquiditySol # Undefined /\ liquiditySol # 0 /\ liquiditySol < Tenths(LowLiquiditySol)

\* lines 95-103
liquidityCheck(r) ==
  /\ gpc = "liquidity"
  /\ gpc' = "lpBurn"
  /\ LET info == checkRaydiumLiquidity(r)
         flag == IF ~info.hasLiquidity THEN <<"NO_LIQUIDITY_POOL">>
                 ELSE IF IsLowLiquidity(info.liquiditySol) THEN <<"LOW_LIQUIDITY">>
                 ELSE <<>>
         penalty == IF ~info.hasLiquidity THEN NoPoolPenalty
                    ELSE IF IsLowLiquidity(info.liquiditySol) THEN LowLiquidityPenalty
                    ELSE 0
     IN g' = [g EXCEPT
          !.hasLiquidity = info.hasLiquidity,
          !.liquiditySol = info.liquiditySol,
          !.flags = @ \o flag,
          !.riskScore = @ + penalty]
  /\ UNCHANGED <<report, scannerVars, coreVars, pumpVars>>

\* line 108
\* A verdict that takes every riskScore below the cap for safe.
IsSafeBelowCap(l) ==
  l.riskScore < RiskCap /\ ~l.isHoneypot /\ l.mintRenounced /\ l.freezeDisabled
  /\ l.hasLiquidity

\* A verdict that does not require a pool.
IsSafeWithoutPool(l) ==
  l.riskScore < SafeLimit /\ ~l.isHoneypot /\ l.mintRenounced /\ l.freezeDisabled

IsSafe(l) ==
  l.riskScore < SafeLimit /\ ~l.isHoneypot /\ l.mintRenounced /\ l.freezeDisabled
  /\ l.hasLiquidity

\* lines 110-124
SecurityReport(l) ==
  [isSafe |-> IsSafe(l),
   riskScore |-> Min2(l.riskScore, RiskCap),
   flags |-> l.flags,
   details |-> [mintRenounced |-> l.mintRenounced,
                freezeDisabled |-> l.freezeDisabled,
                lpBurnedPercent |-> l.lpBurnedPercent,
                top10HoldersPercent |-> l.top10HoldersPercent,
                isHoneypot |-> l.isHoneypot,
                liquiditySol |-> l.liquiditySol,
                hasLiquidity |-> l.hasLiquidity]]

\* lines 106-124
lpBurnCheck(r) ==
  /\ gpc = "lpBurn"
  /\ gpc' = "done"
  /\ g' = [g EXCEPT !.lpBurnedPercent = calculateLPBurnedPercent(r)]
  /\ report' = SecurityReport(g')
  /\ UNCHANGED <<scannerVars, coreVars, pumpVars>>

\* The caller has taken the result (or the rejection) of the call.
returned ==
  /\ gpc \in {"done", "threw"}
  /\ gpc' = "idle"
  /\ g' = Locals
  /\ report' = NoReport
  /\ UNCHANGED <<scannerVars, coreVars, pumpVars>>

GuardNext ==
  \/ analyzeToken
  \/ \E r \in MintReads : authorityCheck(r)
  \/ \E r \in HolderReads : concentrationCheck(r)
  \/ \E r \in HoneypotReads : honeypotCheck(r)
  \/ \E r \in PoolReads : liquidityCheck(r)
  \/ \E r \in LpReads : lpBurnCheck(r)
  \/ returned

\* ============================================================ DecisionCore
\* --- program constants of calculateFinalScore, determinePriority, processToken
DefaultMinLiquidity == 5
DefaultMaxRiskScore == 50
SecurityPoints == 40
LiquidityPoints == 30
AuthorityBonus == 15
FullBurnBonus == 10
HalfBurnBonus == 5
FastCheckBonus == 5
FullBurn == 90
HalfBurn == 50
ScoreCap == 100
SnipeScore == 70
FastSnipeScore == 60
HighScore == 80
HighLiquidity == 50

\* --- doubles
\* calculateFinalScore computes in IEEE-754 doubles.  A double d >= 0 is modelled
\* exactly, by the whole number d * 2^54 written in four limbs of 20 bits, the
\* least significant first.  This holds every double of the function up to
\* 2^19: the two literals have an exponent of -2, so that every product, sum
\* and difference is a multiple of 2^-54.  Each operation gives the exact
\* result rounded to 53 significant bits, ties to even, as the hardware does.
Limb == 2 ^ 20

Carry(v) ==
  LET a == v[1]
      b == v[2] + a \div Limb
      c == v[3] + b \div Limb
      d == v[4] + c \div Limb
  IN <<a % Limb, b % Limb, c % Limb, d>>

\* The double of a whole number n.
Double(n) == Carry(<<0, 0, n * 2 ^ 14, 0>>)

\* The literal 0.4 is the double 7205759403792794 * 2^-54 (0x3FD999999999999A).
Point4 == <<629146, 629145, 6553, 0>>

\* The literal 0.3 is the double 5404319552844595 * 2^-54 (0x3FD3333333333333).
Point3 == <<209715, 209715, 4915, 0>>

Plus(a, b) == Carry(<<a[1] + b[1], a[2] + b[2], a[3] + b[3], a[4] + b[4]>>)
Minus(a, b) == Carry(<<a[1] - b[1], a[2] - b[2], a[3] - b[3], a[4] - b[4]>>)
Less(a, b) == \E i \in 1 .. 4 : a[i] < b[i] /\ \A j \in (i + 1) .. 4 : a[j] = b[j]

RECURSIVE Bits(_)
Bits(n) == IF n = 0 THEN 0 ELSE 1 + Bits(n \div 2)

\* The number of significant bits of the whole number v.
Length(v) ==
  IF v[4] > 0 THEN 60 + Bits(v[4])
  ELSE IF v[3] > 0 THEN 40 + Bits(v[3])
  ELSE IF v[2] > 0 THEN 20 + Bits(v[2])
  ELSE Bits(v[1])

\* Round to nearest, ties to even, to 53 significant bits: `unit` is the weight
\* of the last bit kept, `low` the bits below it and `down` v without them.
Round(v, unit, low, down) ==
  IF 2 * low > unit \/ (2 * low = unit /\ (v[1] \div unit) % 2 = 1)
    THEN Plus(down, <<unit, 0, 0, 0>>)
    ELSE down

RoundTo(v, unit) == Round(v, unit, v[1] % unit, Minus(v, <<v[1] % unit, 0, 0, 0>>))

Nearest(v) == IF Length(v) <= 53 THEN v ELSE RoundTo(v, 2 ^ (Length(v) - 53))

\* n * d, for a whole number n.
Times(n, d) == Nearest(Carry(<<n * d[1], n * d[2], n * d[3], n * d[4]>>))
Sum(a, b) == Nearest(Plus(a, b))
\* A minimum that gives nothing once its bound is reached.
MathMinCliff(a, b) == IF Less(b, a) THEN b ELSE Double(0)

MathMin(a, b) == IF Less(b, a) THEN b ELSE a
\* Math.max(0, a - b)
MathMax0(a, b) == IF Less(a, b) THEN Double(0) ELSE Nearest(Minus(a, b))
\* Math.round: the nearest whole number, a tie going up.
MathRound(d) ==
  LET w == Plus(d, <<0, 0, 2 ^ 13, 0>>) IN w[3] \div 2 ^ 14 + w[4] * 2 ^ 6

\* --- calculateFinalScore (lines 302-336)
\* lines 310-312
securityScore(security) == MathMax0(Double(SecurityPoints), Times(security.riskScore, Point4))

\* lines 314-316
liquidityScore(event) == MathMin(Double(LiquidityPoints), Times(event.liq, Point3))

\* lines 318-321
authorityBonus(score, security) ==
  IF security.details.mintRenounced /\ security.details.freezeDisabled
    THEN Sum(score, Double(AuthorityBonus))
    ELSE score

\* lines 323-328
burnBonus(score, security) ==
  IF security.details.lpBurnedPercent > FullBurn THEN Sum(score, Double(FullBurnBonus))
  ELSE IF security.details.lpBurnedPercent > HalfBurn THEN Sum(score, Double(HalfBurnBonus))
  ELSE score

\* A score without the bonus of the fast path.
fastCheckBonusAbsent(score, isFastCheck) == score

\* lines 330-333
fastCheckBonus(score, isFastCheck) ==
  IF isFastCheck THEN Sum(score, Double(FastCheckBonus)) ELSE score

calculateFinalScore(event, security, isFastCheck) ==
  Min2(ScoreCap,
       MathRound(fastCheckBonus(
                   burnBonus(
                     authorityBonus(
                       Sum(Sum(Double(0), securityScore(security)), liquidityScore(event)),
                       security),
                     security),
                   isFastCheck)))

\* --- determinePriority (lines 341-359)
MediumScore == 70

\* A classification whose MEDIUM starts at the fast path's bar of 60.
determinePriorityFromFastBar(finalScore, liquiditySol, isFastCheck) ==
  IF isFastCheck /\ finalScore >= MediumScore THEN "HIGH"
  ELSE IF finalScore >= HighScore \/ (liquiditySol >= HighLiquidity /\ finalScore >= MediumScore)
    THEN "HIGH"
  ELSE IF finalScore >= FastSnipeScore THEN "MEDIUM"
  ELSE "LOW"

\* A classification that ignores the liquidity.
determinePriorityIgnoringLiquidity(finalScore, liquiditySol, isFastCheck) ==
  IF isFastCheck /\ finalScore >= MediumScore THEN "HIGH"
  ELSE IF finalScore >= HighScore THEN "HIGH"
  ELSE IF finalScore >= MediumScore THEN "MEDIUM"
  ELSE "LOW"

determinePriority(finalScore, liquiditySol, isFastCheck) ==
  IF isFastCheck /\ finalScore >= MediumScore THEN "HIGH"
  ELSE IF finalScore >= HighScore \/ (liquiditySol >= HighLiquidity /\ finalScore >= MediumScore)
    THEN "HIGH"
  ELSE IF finalScore >= MediumScore THEN "MEDIUM"
  ELSE "LOW"

\* --- one application of either function
NoResult == [finalScore |-> -1, priority |-> "none"]

ScoreDetails == [mintRenounced : BOOLEAN, freezeDisabled : BOOLEAN, lpBurnedPercent : {0, 51, 91, 100}]

Arguments(fn, liqs, risks, details, paths, scores) ==
  [fn : {fn}, event : [liq : liqs], security : [riskScore : risks, details : details],
   isFastCheck : paths, finalScore : scores]

NoArgs ==
  [fn |-> "none", event |-> [liq |-> 0],
   security |-> [riskScore |-> 0,
                 details |-> [mintRenounced |-> FALSE, freezeDisabled |-> FALSE,
                              lpBurnedPercent |-> 0]],
   isFastCheck |-> FALSE, finalScore |-> 0]

ScoreIdle == args = NoArgs /\ result = NoResult

applyFinalScore ==
  /\ args.fn = "calculateFinalScore"
  /\ result = NoResult
  /\ result' = [finalScore |-> calculateFinalScore(args.event, args.security, args.isFastCheck),
                priority |-> "none"]
  /\ UNCHANGED <<args, scannerVars, guardVars, coreFields, calls, coreEmits, coreOp, pumpVars>>

applyPriority ==
  /\ args.fn = "determinePriority"
  /\ result = NoResult
  /\ result' = [finalScore |-> args.finalScore,
                priority |-> determinePriority(args.finalScore, args.event.liq, args.isFastCheck)]
  /\ UNCHANGED <<args, scannerVars, guardVars, coreFields, calls, coreEmits, coreOp, pumpVars>>

\* --- constructor (lines 155-171).  enableFastCheck is "true", "false" or "undefined".
CoreFastCheckThreshold == 100

DecisionCore(options) ==
  [minLiquidity |-> OrDefault(options.minLiquidity, DefaultMinLiquidity),
   maxRiskScore |-> OrDefault(options.maxRiskScore, DefaultMaxRiskScore),
   enableFastCheck |-> options.enableFastCheck # "false",
   scanner |-> [fastCheckThreshold |-> OrDefault(options.fastCheckThreshold, CoreFastCheckThreshold),
                cacheSize |-> Undefined, cacheTtlMs |-> Undefined]]

DefaultCoreOptions ==
  [minLiquidity |-> Undefined, maxRiskScore |-> Undefined, enableFastCheck |-> "undefined",
   fastCheckThreshold |-> Undefined]

\* --- events and calls
CoreSigs == 1 .. CoreNumSigs
CoreLiquidities == {4, 5, 7, 50, 100}
PriorityLiquidities == {7, 45, 50, 100}
Calls == [sig : CoreSigs, liq : CoreLiquidities \cup PriorityLiquidities, fast : BOOLEAN]
NoCall == [sig |-> 0, liq |-> 0, fast |-> FALSE]
NoCalls == [c \in Calls |-> 0]

RECURSIVE SumOver(_, _)
SumOver(f, S) ==
  IF S = {} THEN 0 ELSE LET x == CHOOSE x \in S : TRUE IN f[x] + SumOver(f, S \ {x})

NumCalls(pending) == SumOver(pending, DOMAIN pending)

NoToken == [sig |-> 0, liq |-> 0, security |-> NoReport, finalScore |-> -1, priority |-> "none"]

\* The ScoredToken of lines 269-275: the event's fields and the verdict.
ScoredToken(call, security, finalScore, priority) ==
  [sig |-> call.sig, liq |-> call.liq, security |-> security,
   finalScore |-> finalScore, priority |-> priority]

CoreEv(name, mint, reason, token) ==
  [ev |-> name, mint |-> mint, reason |-> reason, token |-> token]

InitCore(options) ==
  LET c == DecisionCore(options) IN
    /\ minLiquidity = c.minLiquidity
    /\ maxRiskScore = c.maxRiskScore
    /\ enableFastCheck = c.enableFastCheck
    /\ tokensProcessed = 0
    /\ tokensAccepted = 0
    /\ tokensRejected = 0
    /\ calls = NoCalls
    /\ coreEmits = <<>>
    /\ coreOp = [name |-> "new", call |-> NoCall, security |-> NoReport]

\* The counters, the suspended calls and the events of the step, as a step
\* of the core updates them.
Counters ==
  [processed |-> tokensProcessed, accepted |-> tokensAccepted, rejected |-> tokensRejected,
   calls |-> calls, emits |-> <<>>]

\* --- rejectToken (lines 364-368)
\* A rejection that is notified and not counted.
rejectTokenUncounted(c, mint, reason) ==
  [c EXCEPT !.emits = Append(@, CoreEv("tokenRejected", mint, reason, NoToken))]

rejectToken(c, mint, reason) ==
  [c EXCEPT !.rejected = @ + 1, !.emits = Append(@, CoreEv("tokenRejected", mint, reason, NoToken))]

\* --- processToken up to its await (lines 231-245)
\* A floor that also rejects a liquidity equal to minLiquidity.
processTokenAboveFloor(c, event, isFastCheck) ==
  LET counted == [c EXCEPT !.processed = @ + 1] IN
    IF event.liq <= minLiquidity
      THEN rejectToken(counted, event.sig, "Liquidite insuffisante")
      ELSE [counted EXCEPT
              !.calls[[sig |-> event.sig, liq |-> event.liq, fast |-> isFastCheck]] = @ + 1]

processToken(c, event, isFastCheck) ==
  LET counted == [c EXCEPT !.processed = @ + 1] IN
    IF event.liq < minLiquidity
      THEN rejectToken(counted, event.sig, "Liquidite insuffisante")
      ELSE [counted EXCEPT
              !.calls[[sig |-> event.sig, liq |-> event.liq, fast |-> isFastCheck]] = @ + 1]

\* Listeners that handle a pool once: only the first event emitted for it.
listenersOncePerPool(c, events) ==
  IF events = <<>> THEN c
  ELSE LET e == Head(events) IN
         IF e.ev = "newToken" THEN processToken(c, e, FALSE)
         ELSE IF e.ev = "fastCheck" /\ enableFastCheck THEN processToken(c, e, TRUE)
         ELSE c

\* --- the listeners of setupScannerEvents (lines 176-198), run on the events
\* the scanner emits in one step, in their order.
RECURSIVE listeners(_, _)
listeners(c, events) ==
  IF events = <<>> THEN c
  ELSE LET e == Head(events)
           after == IF e.ev = "newToken" THEN processToken(c, e, FALSE)
                    ELSE IF e.ev = "fastCheck" /\ enableFastCheck THEN processToken(c, e, TRUE)
                    ELSE c
       IN listeners(after, Tail(events))

Assign(c) ==
  /\ tokensProcessed' = c.processed
  /\ tokensAccepted' = c.accepted
  /\ tokensRejected' = c.rejected
  /\ calls' = c.calls
  /\ coreEmits' = c.emits

\* The scanner decodes a pool (lines 373-379 of MarketScanner.ts) and the core's
\* listeners run.
scannerEmits(sig, liquiditySol) ==
  LET c == listeners(Counters, PoolEvents(sig, liquiditySol, fastCheckThreshold)) IN
    /\ c.processed <= CoreMaxProcessed
    /\ NumCalls(c.calls) <= CoreMaxCalls
    /\ Assign(c)
    /\ coreOp' = [name |-> "events",
                  call |-> [sig |-> sig, liq |-> liquiditySol,
                            fast |-> enableFastCheck /\ liquiditySol >= fastCheckThreshold],
                  security |-> NoReport]
    /\ UNCHANGED <<minLiquidity, maxRiskScore, enableFastCheck, scoreVars, scannerVars, guardVars, pumpVars>>

\* guard.validateToken (Guard.ts lines 50-52) for one of the suspended calls: it
\* is analyzeToken, which runs up to its first await.
validateToken ==
  /\ NumCalls(calls) > 0
  /\ gpc = "idle"
  /\ gpc' = "getMint"
  /\ g' = Locals
  /\ report' = NoReport
  /\ coreEmits' = <<>>
  /\ coreOp' = [name |-> "validateToken", call |-> NoCall, security |-> NoReport]
  /\ UNCHANGED <<coreFields, calls, scoreVars, scannerVars, pumpVars>>

\* --- the gates of processToken after its await (lines 247-287)
\* An admission on the standard path only.
AdmittedStandardOnly(finalScore, isFastCheck) == ~isFastCheck /\ finalScore >= SnipeScore

\* An admission with the bar of the standard path on both paths.
AdmittedAtSnipeScore(finalScore, isFastCheck) == finalScore >= SnipeScore

Admitted(finalScore, isFastCheck) ==
  finalScore >= SnipeScore \/ (isFastCheck /\ finalScore >= FastSnipeScore)

\* lines 266-275: the priority and the ScoredToken of a final score.
scoreToken(call, security, finalScore) ==
  ScoredToken(call, security, finalScore, determinePriority(finalScore, call.liq, call.fast))

\* An admission decision notified before tokenScored.
decideThenNotify(c, call, scoredToken) ==
  LET scored == CoreEv("tokenScored", call.sig, "", scoredToken) IN
    IF Admitted(scoredToken.finalScore, call.fast)
      THEN [c EXCEPT !.accepted = @ + 1,
                     !.emits = @ \o <<CoreEv("readyToSnipe", call.sig, "", scoredToken), scored>>]
      ELSE [rejectToken(c, call.sig, "Score insuffisant") EXCEPT !.emits = Append(@, scored)]

\* lines 277-287: tokenScored, then the admission decision.
decide(c, call, scoredToken) ==
  LET scored == [c EXCEPT !.emits = Append(@, CoreEv("tokenScored", call.sig, "", scoredToken))] IN
    IF Admitted(scoredToken.finalScore, call.fast)
      THEN [scored EXCEPT !.accepted = @ + 1,
                          !.emits = Append(@, CoreEv("readyToSnipe", call.sig, "", scoredToken))]
      ELSE rejectToken(scored, call.sig, "Score insuffisant")

\* Gates that reject an event while the run of another one is suspended.
gatesWhenAlone(c, call, security) ==
  IF NumCalls(c.calls) > 0 \/ security.riskScore > maxRiskScore
    THEN rejectToken(c, call.sig, "Risk score trop eleve")
  ELSE IF ~security.isSafe
    THEN rejectToken(c, call.sig, "Token non sur")
  ELSE decide(c, call, scoreToken(call, security, calculateFinalScore(call, security, call.fast)))

\* Gates that accept one token and no more.
gatesWithQuota(c, call, security) ==
  IF c.accepted > 0 \/ security.riskScore > maxRiskScore
    THEN rejectToken(c, call.sig, "Risk score trop eleve")
  ELSE IF ~security.isSafe
    THEN rejectToken(c, call.sig, "Token non sur")
  ELSE decide(c, call, scoreToken(call, security, calculateFinalScore(call, security, call.fast)))

\* Gates without the comparison of riskScore with maxRiskScore.
gatesWithoutRiskScore(c, call, security) ==
  IF ~security.isSafe
    THEN rejectToken(c, call.sig, "Token non sur")
  ELSE decide(c, call, scoreToken(call, security, calculateFinalScore(call, security, call.fast)))

gates(c, call, security) ==
  IF security.riskScore > maxRiskScore
    THEN rejectToken(c, call.sig, "Risk score trop eleve")
  ELSE IF ~security.isSafe
    THEN rejectToken(c, call.sig, "Token non sur")
  ELSE decide(c, call, scoreToken(call, security, calculateFinalScore(call, security, call.fast)))

\* A processToken without the catch of lines 288-291: an exception of the Guard
\* ends the call and rejects nothing.
processTokenResumedUncaught(call) ==
  /\ gpc \in {"done", "threw"}
  /\ calls[call] > 0
  /\ LET c == [Counters EXCEPT !.calls[call] = @ - 1] IN
       IF gpc = "threw"
         THEN Assign(c)
         ELSE Assign(gates(c, call, report))
  /\ coreOp' = [name |-> IF gpc = "threw" THEN "caught" ELSE "resumed",
                call |-> call, security |-> report]
  /\ gpc' = "idle"
  /\ g' = Locals
  /\ report' = NoReport
  /\ UNCHANGED <<minLiquidity, maxRiskScore, enableFastCheck, scoreVars, scannerVars, pumpVars>>

\* processToken resumed: guard.validateToken has returned a report, or has
\* thrown into the catch of lines 288-291.
processTokenResumed(call) ==
  /\ gpc \in {"done", "threw"}
  /\ calls[call] > 0
  /\ LET c == [Counters EXCEPT !.calls[call] = @ - 1] IN
       IF gpc = "threw"
         THEN Assign(rejectToken(c, call.sig, "Erreur"))
         ELSE Assign(gates(c, call, report))
  /\ coreOp' = [name |-> IF gpc = "threw" THEN "caught" ELSE "resumed",
                call |-> call, security |-> report]
  /\ gpc' = "idle"
  /\ g' = Locals
  /\ report' = NoReport
  /\ UNCHANGED <<minLiquidity, maxRiskScore, enableFastCheck, scoreVars, scannerVars, pumpVars>>

\* The scanner of a DecisionCore: processNewPool from its await on, with the
\* listeners of setupScannerEvents run on the events it emits, each up to its
\* await.
processNewPoolHeard(sig, outcome, liquiditySol) ==
  /\ processNewPoolResumed(sig, outcome, liquiditySol)
  /\ LET c == listeners(Counters, emits') IN
       /\ c.processed <= CoreMaxProcessed
       /\ NumCalls(c.calls) <= CoreMaxCalls
       /\ Assign(c)
  /\ coreOp' = [name |-> IF outcome = "decoded" THEN "events" ELSE "quiet",
                call |-> [sig |-> sig, liq |-> liquiditySol,
                          fast |-> enableFastCheck /\ liquiditySol >= fastCheckThreshold],
                security |-> NoReport]
  /\ UNCHANGED <<minLiquidity, maxRiskScore, enableFastCheck, scoreVars, guardVars, pumpVars>>

\* ------------------------------------------------------------- PumpScanner
\* src/src/ingestors/PumpScanner.ts.  The Set keeps insertion order, which is
\* the order of Array.from (line 172).
MAX_CACHE_SIZE == 1000
ToDeleteCount == 500

PumpIdle ==
  /\ processedSignatures = <<>>
  /\ subscriptionId = 0
  /\ pumpIsRunning = FALSE
  /\ logsListeners = 0
  /\ pumpOp = Op("new")
  /\ seenSignatures = 0

\* processedSignatures.has (line 165)
has(signatures, signature) == \E i \in 1 .. Len(signatures) : signatures[i] = signature

\* A cleaning that keeps the cache when it is full.
cleanedNever(signatures) == signatures

\* lines 170-174: Array.from(...).slice(0, 500), each deleted.
cleaned(signatures) ==
  IF Len(signatures) >= MAX_CACHE_SIZE
    THEN SubSeq(signatures, Min2(ToDeleteCount, Len(signatures)) + 1, Len(signatures))
    ELSE signatures

\* start (lines 83-119); onLogs returns the id or throws.
pumpStart(ok) ==
  /\ pumpIsRunning \/ ~ok \/ logsListeners < PumpMaxListeners
  /\ IF pumpIsRunning
       THEN /\ pumpOp' = Op("alreadyRunning")
            /\ UNCHANGED <<processedSignatures, subscriptionId, pumpIsRunning, logsListeners>>
       ELSE IF ok
         THEN /\ subscriptionId' = 1
              /\ logsListeners' = logsListeners + 1
              /\ pumpIsRunning' = TRUE
              /\ pumpOp' = Op("connected")
              /\ UNCHANGED processedSignatures
         ELSE /\ pumpIsRunning' = FALSE
              /\ pumpOp' = Op("startFailed")
              /\ UNCHANGED <<processedSignatures, subscriptionId, logsListeners>>
  /\ UNCHANGED <<seenSignatures, scannerVars, guardVars, coreVars>>

\* stop (lines 124-143); removeOnLogsListener removes the listener or throws,
\* and a message delivered while it is awaited is one delivered before stop.
pumpStop(ok) ==
  /\ IF ~pumpIsRunning
       THEN /\ pumpOp' = Op("notRunning")
            /\ UNCHANGED <<processedSignatures, subscriptionId, pumpIsRunning, logsListeners>>
       ELSE /\ IF subscriptionId # 0 /\ ok
                 THEN subscriptionId' = 0 /\ logsListeners' = logsListeners - 1
                 ELSE UNCHANGED <<subscriptionId, logsListeners>>
            /\ pumpIsRunning' = FALSE
            /\ pumpOp' = Op("disconnected")
            /\ UNCHANGED processedSignatures
  /\ UNCHANGED <<seenSignatures, scannerVars, guardVars, coreVars>>

\* handleLogs (lines 153-196), one call of a registered listener.  It has no
\* await: processTransaction (lines 208-258) is launched and not awaited, and
\* writes no field of the scanner.  Signatures are numbered in the order of
\* their first insertion.
handleLogs(logs) ==
  /\ logsListeners > 0
  /\ logs.signature <= seenSignatures + 1
  /\ IF logs.err
       THEN /\ pumpOp' = OpSig("failed", logs.signature)
            /\ UNCHANGED <<processedSignatures, seenSignatures>>
       ELSE IF logs.signature = 0
         THEN /\ pumpOp' = Op("noSignature")
              /\ UNCHANGED <<processedSignatures, seenSignatures>>
       ELSE IF has(processedSignatures, logs.signature)
         THEN /\ pumpOp' = OpSig("duplicate", logs.signature)
              /\ UNCHANGED <<processedSignatures, seenSignatures>>
       ELSE /\ processedSignatures' = Append(cleaned(processedSignatures), logs.signature)
            /\ seenSignatures' = IF logs.signature > seenSignatures
                                   THEN logs.signature ELSE seenSignatures
            /\ pumpOp' = OpSig(IF logs.create THEN "processTransaction" ELSE "notCreate",
                               logs.signature)
  /\ UNCHANGED <<subscriptionId, pumpIsRunning, logsListeners, scannerVars, guardVars, coreVars>>

\* The signatures delivered: none, a new one, the one inserted last, and the
\* ones on both sides of the cut of the cleaning.
PumpLogs ==
  [err : BOOLEAN,
   signature : {0, 1, ToDeleteCount, ToDeleteCount + 1, seenSignatures, seenSignatures + 1}
               \cap (0 .. PumpNumSigs),
   create : BOOLEAN]

PumpNext ==
  \/ \E ok \in BOOLEAN : pumpStart(ok)
  \/ \E ok \in BOOLEAN : pumpStop(ok)
  \/ \E logs \in PumpLogs : handleLogs(logs)

\* --------------------------------------------------------- specifications
vars == <<scannerVars, guardVars, coreVars, pumpVars>>

Next ==
  \/ start
  \/ \E kind \in {"start", "reconnect"}, ok \in BOOLEAN : startGeyserStream(kind, ok)
  \/ stop
  \/ \E field \in BOOLEAN, st \in LiveStates : streamError(field, st)
  \/ \E field \in BOOLEAN, st \in LiveStates : streamEnd(field, st)
  \/ reconnectTimer
  \/ \E shape \in MessageShapes, sig \in Sigs : handleGeyserMessage(shape, sig)
  \/ \E sig \in Sigs, outcome \in DecodeOutcomes, liq \in Liquidities :
       processNewPool(sig, outcome, liq)
  \/ cacheCleanupTimer
  \/ tick

LifeBounds == [maxStreams |-> LifeMaxStreams, maxTimers |-> LifeMaxTimers,
               maxConnecting |-> LifeMaxConnecting, maxIntervals |-> LifeMaxStreams,
               numSigs |-> LifeNumSigs, maxInflight |-> LifeMaxInflight,
               maxTime |-> LifeMaxTime, maxStreak |-> LifeMaxStreak]

DedupBounds == [maxStreams |-> DedupMaxStreams, maxTimers |-> DedupMaxTimers,
                maxConnecting |-> DedupMaxConnecting, maxIntervals |-> DedupMaxStreams,
                numSigs |-> DedupNumSigs, maxInflight |-> DedupMaxInflight,
                maxTime |-> DedupMaxTime, maxStreak |-> DedupMaxStreak]

Options(maxCacheSize) ==
  [fastCheckThreshold : {Undefined}, cacheSize : 1 .. maxCacheSize, cacheTtlMs : {1}]

\* The scanner and the Guard on their own: a core with the default options that
\* receives nothing.
CoreIdle == InitCore(DefaultCoreOptions) /\ ScoreIdle

Init == PumpIdle /\ InitScanner(LifeBounds, Options(LifeMaxCacheSize), BOOLEAN) /\ GuardIdle /\ CoreIdle

Spec == Init /\ [][Next]_vars

DedupInit ==
  PumpIdle /\ InitScanner(DedupBounds, Options(DedupMaxCacheSize), {TRUE}) /\ GuardIdle /\ CoreIdle

DedupSpec == DedupInit /\ [][Next]_vars

\* Guard keeps no state between calls: its specification is one call after another.
GuardInit ==
  PumpIdle /\ InitScanner(LifeBounds, Options(LifeMaxCacheSize), {TRUE}) /\ GuardIdle /\ CoreIdle

GuardSpec == GuardInit /\ [][GuardNext]_vars

\* The two scoring functions, each applied once to arguments of its domain.
ScoreLiquidities == {0, 7, 9, 45, 50, 99, 100, 120}

ScoreArgs ==
  Arguments("calculateFinalScore", ScoreLiquidities, 0 .. ScoreMaxRisk, ScoreDetails,
            BOOLEAN, {0})
  \cup Arguments("determinePriority", ScoreLiquidities, {0}, {NoArgs.security.details},
                 BOOLEAN, 0 .. ScoreCap)

ScoreInit ==
  /\ PumpIdle /\ InitScanner(LifeBounds, Options(LifeMaxCacheSize), {TRUE}) /\ GuardIdle
  /\ InitCore(DefaultCoreOptions)
  /\ args \in ScoreArgs
  /\ result = NoResult

ScoreNext == applyFinalScore \/ applyPriority

ScoreSpec == ScoreInit /\ [][ScoreNext]_vars

\* DecisionCore with its scanner's events and its Guard.  Guard keeps no state,
\* so the analyses of the suspended calls are taken one after another; the
\* calls resume in any order.
CoreOptions ==
  {DefaultCoreOptions,
   [DefaultCoreOptions EXCEPT !.minLiquidity = 50],
   [DefaultCoreOptions EXCEPT !.maxRiskScore = 20],
   [DefaultCoreOptions EXCEPT !.maxRiskScore = 100],
   [DefaultCoreOptions EXCEPT !.maxRiskScore = 100, !.fastCheckThreshold = 5],
   [DefaultCoreOptions EXCEPT !.fastCheckThreshold = 5],
   [DefaultCoreOptions EXCEPT !.enableFastCheck = "true", !.minLiquidity = 7, !.fastCheckThreshold = 5],
   [DefaultCoreOptions EXCEPT !.enableFastCheck = "false", !.fastCheckThreshold = 5]}

CoreMintReads == {r \in MintReads : ~r.mintAuthority}
CoreHolderReads == {r \in HolderReads : r.accounts \in {<<30, 21>>, <<20, 30>>}}
CoreHoneypotReads ==
  {r \in HoneypotReads :
     \/ r.quote \in {"throws", "zero"} /\ r.swap = "ok" /\ r.simulation = "clean"
     \/ r.quote = "ok" /\ r.swap = "ok" /\ r.simulation \in {"err", "denied", "clean"}}
CorePoolReads ==
  {r \in PoolReads : r.rpc /\ ((r.match /\ r.balance \in {49, 451}) \/ (~r.match /\ r.balance = 0))}
CoreLpReads == {r \in LpReads : r.rpc /\ r.match /\ r.burned \in {50, 51, 91}}

CoreInit ==
  \E options \in CoreOptions :
    /\ PumpIdle /\ InitScanner(LifeBounds, {DecisionCore(options).scanner}, {TRUE})
    /\ GuardIdle
    /\ InitCore(options)
    /\ ScoreIdle

CoreNext ==
  \/ \E sig \in CoreSigs, liq \in CoreLiquidities : scannerEmits(sig, liq)
  \/ validateToken
  \/ \E r \in CoreMintReads : authorityCheck(r)
  \/ \E r \in CoreHolderReads : concentrationCheck(r)
  \/ \E r \in CoreHoneypotReads : honeypotCheck(r)
  \/ \E r \in CorePoolReads : liquidityCheck(r)
  \/ \E r \in CoreLpReads : lpBurnCheck(r)
  \/ \E call \in Calls : processTokenResumed(call)

CoreSpec == CoreInit /\ [][CoreNext]_vars

\* The same with liquidities on both sides of the 50 SOL of determinePriority.
PriorityNext ==
  \/ \E sig \in CoreSigs, liq \in PriorityLiquidities : scannerEmits(sig, liq)
  \/ validateToken
  \/ \E r \in CoreMintReads : authorityCheck(r)
  \/ \E r \in CoreHolderReads : concentrationCheck(r)
  \/ \E r \in CoreHoneypotReads : honeypotCheck(r)
  \/ \E r \in CorePoolReads : liquidityCheck(r)
  \/ \E r \in CoreLpReads : lpBurnCheck(r)
  \/ \E call \in Calls : processTokenResumed(call)

PrioritySpec == CoreInit /\ [][PriorityNext]_vars


\* The two constructors, each applied once to an options object.  `args` holds
\* the options and `result` the fields the constructor assigned: for
\* DecisionCore its own fields and those of the scanner it builds (line 163),
\* for MarketScanner the three fields of lines 92-94.
ConfigValues(configured) == {Undefined, 0} \cup configured

ConfigArgs ==
  [fn : {"DecisionCore"},
   options : [minLiquidity : ConfigValues({5, 7}), maxRiskScore : ConfigValues({50, 20}),
              enableFastCheck : {"true", "false", "undefined"},
              fastCheckThreshold : ConfigValues({100, 5})]]
  \cup [fn : {"MarketScanner"},
        options : [fastCheckThreshold : ConfigValues({100, 5}),
                   cacheSize : ConfigValues({10000, 2}),
                   cacheTtlMs : ConfigValues({3600000, 1})]]

ConfigInit ==
  /\ PumpIdle /\ InitScanner(LifeBounds, Options(LifeMaxCacheSize), {TRUE}) /\ GuardIdle
  /\ InitCore(DefaultCoreOptions)
  /\ args \in ConfigArgs
  /\ result = NoResult

applyDecisionCore ==
  /\ args.fn = "DecisionCore"
  /\ result = NoResult
  /\ result' = LET c == DecisionCore(args.options) IN
                 [minLiquidity |-> c.minLiquidity, maxRiskScore |-> c.maxRiskScore,
                  enableFastCheck |-> c.enableFastCheck, scanner |-> constructor(c.scanner)]
  /\ UNCHANGED <<args, scannerVars, guardVars, coreFields, calls, coreEmits, coreOp, pumpVars>>

applyMarketScanner ==
  /\ args.fn = "MarketScanner"
  /\ result = NoResult
  /\ result' = constructor(args.options)
  /\ UNCHANGED <<args, scannerVars, guardVars, coreFields, calls, coreEmits, coreOp, pumpVars>>

ConfigNext == applyDecisionCore \/ applyMarketScanner

ConfigSpec == ConfigInit /\ [][ConfigNext]_vars

\* DecisionCore with its scanner and its Guard: start() and stop() of the core
\* are those of the scanner (lines 203-223), the scanner's events reach the
\* listeners of the core, and the suspended calls resume in any order.
PipelineBounds == [DedupBounds EXCEPT !.numSigs = CoreNumSigs,
                                      !.maxInflight = LifeMaxInflight,
                                      !.maxTime = LifeMaxTime]

PipelineLiquidities == {4, 100}
PipelineMintReads == {r \in CoreMintReads : ~r.freezeAuthority}
PipelineHolderReads == {r \in CoreHolderReads : r.accounts = <<30, 21>>}
PipelineHoneypotReads == {r \in CoreHoneypotReads : r.quote = "ok" /\ r.simulation = "clean"}
PipelinePoolReads == {r \in CorePoolReads : r.balance = 451}
PipelineLpReads == {r \in CoreLpReads : r.burned = 91}

PipelineInit ==
  /\ PumpIdle /\ InitScanner(PipelineBounds, {DecisionCore(DefaultCoreOptions).scanner}, {TRUE})
  /\ GuardIdle
  /\ InitCore(DefaultCoreOptions)
  /\ ScoreIdle

PipelineNext ==
  \/ start
  \/ \E kind \in {"start", "reconnect"}, ok \in BOOLEAN : startGeyserStream(kind, ok)
  \/ stop
  \/ \E field \in BOOLEAN, st \in LiveStates : streamError(field, st)
  \/ \E field \in BOOLEAN, st \in LiveStates : streamEnd(field, st)
  \/ reconnectTimer
  \/ \E shape \in MessageShapes, sig \in Sigs : handleGeyserMessage(shape, sig)
  \/ \E sig \in Sigs, outcome \in DecodeOutcomes, liq \in PipelineLiquidities :
       processNewPoolHeard(sig, outcome, liq)
  \/ cacheCleanupTimer
  \/ tick
  \/ validateToken
  \/ \E r \in PipelineMintReads : authorityCheck(r)
  \/ \E r \in PipelineHolderReads : concentrationCheck(r)
  \/ \E r \in PipelineHoneypotReads : honeypotCheck(r)
  \/ \E r \in PipelinePoolReads : liquidityCheck(r)
  \/ \E r \in PipelineLpReads : lpBurnCheck(r)
  \/ \E call \in Calls : processTokenResumed(call)

PipelineSpec == PipelineInit /\ [][PipelineNext]_vars

\* One analyzeToken call on reads fixed beforehand: `args` holds what the chain
\* and the API answer to each check of the call.
ChecksPoolReads ==
  {r \in PoolReads : \/ ~r.rpc /\ ~r.match /\ r.balance = 0
                     \/ r.rpc /\ ~r.match /\ r.balance = 0
                     \/ r.rpc /\ r.match /\ r.balance \in {-2, 0, 49, 451}}

ChecksArgs ==
  [fn : {"analyzeToken"},
   mint : {r \in MintReads : r.ok /\ ~r.mintAuthority},
   holders : HolderReads, honeypot : HoneypotReads, pool : ChecksPoolReads, lp : LpReads]

ChecksInit ==
  /\ PumpIdle /\ InitScanner(LifeBounds, Options(LifeMaxCacheSize), {TRUE}) /\ GuardIdle
  /\ InitCore(DefaultCoreOptions)
  /\ args \in ChecksArgs
  /\ result = NoResult

ChecksNext ==
  \/ analyzeToken
  \/ authorityCheck(args.mint)
  \/ concentrationCheck(args.holders)
  \/ honeypotCheck(args.honeypot)
  \/ liquidityCheck(args.pool)
  \/ lpBurnCheck(args.lp)
  \/ returned

ChecksSpec == ChecksInit /\ [][ChecksNext]_vars

\* PumpScanner alone, from its construction.
PumpInit ==
  PumpIdle /\ InitScanner(LifeBounds, Options(LifeMaxCacheSize), {TRUE}) /\ GuardIdle /\ CoreIdle

PumpSpec == PumpInit /\ [][PumpNext]_vars

\* ------------------------------------------------------------------ claims
Has(flags, f) == \E i \in 1 .. Len(flags) : flags[i] = f
B2N(b) == IF b THEN 1 ELSE 0
HasEvent(events, name, sig) == \E i \in 1 .. Len(events) : events[i].ev = name /\ events[i].sig = sig

\* C1 (DedupSpec): while the dedup record of a signature is in the cache, newToken
\* has been emitted for that signature at most once since the record was inserted,
\* however often the stream redelivers it and across reconnects, stop() and start().
C1_DedupInvariant ==
  \A s \in Sigs : isPoolProcessed(processedPools, s) => emitCount[s] <= 1

\* C2 (Spec): whenever the scanner is running, a stream subscription is active or a
\* reconnect attempt is pending (a timer, or a connection attempt in progress).
C2_RunningStaysConnected ==
  isRunning => \/ geyserStream = "open"
               \/ orphanStreams["open"] > 0
               \/ reconnectTimers > 0
               \/ NumConnecting > 0

\* C3 (Spec): the k-th reconnect delay scheduled since the last successful
\* subscription is min(1000 * 2^(k-1), 30000) ms, the backoff stays within
\* [1000, 30000], and it only ever decreases by a subscription resetting it to 1000.
C3_BackoffValues ==
  /\ reconnectBackoffMs >= InitialBackoffMs
  /\ reconnectBackoffMs <= MaxBackoffMs
  /\ reconnectBackoffMs = Min2(1000 * 2 ^ streak, 30000)
  /\ streak >= 1 => lastDelay = Min2(1000 * 2 ^ (streak - 1), 30000)

C3_BackoffReset ==
  reconnectBackoffMs' < reconnectBackoffMs
    => reconnectBackoffMs' = 1000 /\ lastOp'.name = "subscribe" /\ geyserStream' = "open"

C3_ExponentialBackoff == []C3_BackoffValues /\ [][C3_BackoffReset]_vars

C3_Witness == streak = 6 /\ lastDelay = 30000 /\ lastOp.name = "connectFailed"

\* C4 (Spec): once stop() has returned, having been called when no start() was in
\* progress and nothing had leaked, and with no start() made since, no stream
\* subscription is active and no cache-cleanup timer is running.
C4_StoppedIsQuiet ==
  stopped => /\ geyserStream # "open"
             /\ orphanStreams["open"] = 0
             /\ liveIntervals = 0

\* C5 (Spec): stop() on a scanner that is not running changes no state and emits
\* nothing; a stop() that directly follows a stop() changes nothing and emits
\* nothing, so 'disconnected' is emitted once, by the stop() that found it running.
C5_StopStep ==
  /\ (lastOp'.name \in {"stop", "stopAgain"} /\ ~isRunning)
       => UNCHANGED <<scannerFields, runtimeVars>> /\ emits' = <<>>
  /\ (lastOp'.name = "stopAgain" /\ lastOp.name \in {"stop", "stopAgain"})
       => UNCHANGED <<scannerFields, runtimeVars>> /\ emits' = <<>>
  /\ (lastOp'.name = "stop" /\ isRunning)
       => ~isRunning' /\ emits' = <<Ev("disconnected")>>

C5_StopIdempotent == [][C5_StopStep]_vars

\* A second stop() directly after the stop() that cancelled an open stream.
C5_Witness ==
  lastOp.name = "stopAgain" /\ ~isRunning /\ emits = <<>> /\ orphanStreams["closing"] > 0

\* C6 (DedupSpec): a signature that has no record is inserted at the end of the
\* cache and fetched; when the cache already holds cacheSize records, exactly the
\* earliest inserted one is evicted first, and otherwise none is; the decode of a
\* fetched signature emits newToken for it, whether or not it was seen before.
C6_InsertStep ==
  /\ lastOp'.name = "pool" =>
       LET sig == lastOp'.sig
           entry == [poolId |-> sig, timestamp |-> now]
       IN /\ ~isPoolProcessed(processedPools, sig)
          /\ Len(processedPools) <= cacheSize
          /\ processedPools' = IF Len(processedPools) = cacheSize
                                 THEN Append(Tail(processedPools), entry)
                                 ELSE Append(processedPools, entry)
          /\ inflight'[sig] = inflight[sig] + 1
  /\ lastOp'.name = "decoded" =>
       /\ inflight'[lastOp'.sig] = inflight[lastOp'.sig] - 1
       /\ HasEvent(emits', "newToken", lastOp'.sig)

C6_CacheOverflow == [][C6_InsertStep]_vars

\* Signatures 1, 2 and 3 were inserted into a cache of two, which evicted 1; 1 was
\* then delivered again, inserted as new (evicting 2), fetched and emitted.
C6_Witness ==
  /\ cacheSize = 2 /\ seenSigs = 3 /\ now = 0
  /\ processedPools = <<[poolId |-> 3, timestamp |-> 0], [poolId |-> 1, timestamp |-> 0]>>
  /\ lastOp = OpSig("decoded", 1)
  /\ HasEvent(emits, "newToken", 1)

\* C7 (GuardSpec): analyzeToken never throws; when the mint account cannot be read
\* the call still returns a report that treats the freeze authority as not revoked.
C7_MintReadFailureDegrades ==
  g.mintRead = "failed" =>
    /\ gpc # "threw"
    /\ gpc = "done" => /\ report.riskScore >= FreezePenalty
                       /\ Has(report.flags, "FREEZE_AUTHORITY_NOT_DISABLED")
                       /\ ~report.isSafe

\* The penalty sum of the claims, from the outcomes of the checks.
ClaimedPenalties(d) ==
  50 * B2N(~d.freezeDisabled) + 30 * B2N(d.top10HoldersPercent > 50)
  + 100 * B2N(d.isHoneypot) + 40 * B2N(~d.hasLiquidity)
  + 20 * B2N(d.hasLiquidity /\ d.liquiditySol < Tenths(5))

\* C8 (GuardSpec): riskScore = min(100, 50*[freeze not revoked] + 30*[top-10 > 50]
\* + 100*[honeypot] + 40*[no pool] + 20*[pool found and balance < 5 SOL]), an
\* integer in [0, 100].
C8_RiskScoreFormula ==
  gpc = "done" => /\ report.riskScore = Min2(100, ClaimedPenalties(report.details))
                  /\ report.riskScore \in 0 .. 100

\* The same formula on the reports whose pool does not hold exactly 0 SOL.
C8_ExceptEmptyVault ==
  (gpc = "done" /\ report.details.liquiditySol # 0)
    => /\ report.riskScore = Min2(100, ClaimedPenalties(report.details))
       /\ report.riskScore \in 0 .. 100

\* The penalties the report's flags stand for.
FlagPenalties(flags) ==
  50 * B2N(Has(flags, "FREEZE_AUTHORITY_NOT_DISABLED")) + 30 * B2N(Has(flags, "HIGH_CONCENTRATION"))
  + 100 * B2N(Has(flags, "HONEYPOT_DETECTED")) + 40 * B2N(Has(flags, "NO_LIQUIDITY_POOL"))
  + 20 * B2N(Has(flags, "LOW_LIQUIDITY"))

\* C9 (GuardSpec): isSafe holds exactly when the uncapped sum of the penalties
\* applied is below 50, the token is no honeypot, both authorities are revoked and
\* a pool was found; a report with no pool carries the +40 and is not safe.
C9_IsSafe ==
  gpc = "done" =>
    LET d == report.details IN
      /\ g.riskScore = FlagPenalties(report.flags)
      /\ report.isSafe <=> /\ FlagPenalties(report.flags) < 50
                           /\ ~d.isHoneypot
                           /\ d.mintRenounced /\ d.freezeDisabled
                           /\ d.hasLiquidity
      /\ ~d.hasLiquidity => /\ Has(report.flags, "NO_LIQUIDITY_POOL")
                            /\ report.riskScore >= 40
                            /\ ~report.isSafe

\* No pool was found and every other check passed: +40, below 50, and not safe.
C9_Witness ==
  /\ gpc = "done"
  /\ report.flags = <<"NO_LIQUIDITY_POOL">>
  /\ report.riskScore = 40
  /\ report.details.mintRenounced /\ report.details.freezeDisabled
  /\ ~report.details.isHoneypot
  /\ ~report.isSafe

\* C10 (GuardSpec): a report whose pool was found with a vault balance below
\* 5 SOL, 0 included, carries the +20 penalty and the LOW_LIQUIDITY flag.
C10_LowLiquidityPenalised ==
  (gpc = "done" /\ report.details.hasLiquidity
     /\ report.details.liquiditySol < Tenths(5))
    => /\ Has(report.flags, "LOW_LIQUIDITY")
       /\ g.riskScore = 20 + 50 * B2N(~report.details.freezeDisabled)
                           + 30 * B2N(report.details.top10HoldersPercent > 50)
                           + 100 * B2N(report.details.isHoneypot)

\* The same on the balances other than 0.
C10_ExceptEmptyVault ==
  (gpc = "done" /\ report.details.hasLiquidity
     /\ report.details.liquiditySol # 0 /\ report.details.liquiditySol < Tenths(5))
    => /\ Has(report.flags, "LOW_LIQUIDITY")
       /\ g.riskScore = 20 + 50 * B2N(~report.details.freezeDisabled)
                           + 30 * B2N(report.details.top10HoldersPercent > 50)
                           + 100 * B2N(report.details.isHoneypot)


\* ---------------------------------------------------------- scoring claims
Scored == args.fn = "calculateFinalScore" /\ result # NoResult
Classified == args.fn = "determinePriority" /\ result # NoResult

\* The score as the claim words it, in tenths of a point and in exact arithmetic.
ClaimedTenths(a) ==
  (IF 4 * a.security.riskScore < 400 THEN 400 - 4 * a.security.riskScore ELSE 0)
  + (IF 3 * a.event.liq < 300 THEN 3 * a.event.liq ELSE 300)
  + (IF a.security.details.mintRenounced /\ a.security.details.freezeDisabled THEN 150 ELSE 0)
  + (IF a.security.details.lpBurnedPercent > 90 THEN 100
     ELSE IF a.security.details.lpBurnedPercent > 50 THEN 50 ELSE 0)
  + (IF a.isFastCheck THEN 50 ELSE 0)

ClaimedFinalScore(a) ==
  LET halfUp == (ClaimedTenths(a) + 5) \div 10 IN IF halfUp > 100 THEN 100 ELSE halfUp

C15_ScoreInRange ==
  Scored =>
    /\ result.finalScore \in 0 .. 100
    /\ result.finalScore \in {ClaimedFinalScore(args) - 1, ClaimedFinalScore(args)}
    /\ (/\ args.event.liq = 45
        /\ args.security.riskScore = 15
        /\ args.security.details = [mintRenounced |-> TRUE, freezeDisabled |-> TRUE,
                                    lpBurnedPercent |-> 100]
        /\ ~args.isFastCheck) => result.finalScore = 73

\* The priority as the claim words it.
ClaimedPriority(finalScore, liquidity, fast) ==
  IF (fast /\ finalScore >= 70) \/ finalScore >= 80 \/ (liquidity >= 50 /\ finalScore >= 70)
    THEN "HIGH"
  ELSE IF finalScore >= 70 THEN "MEDIUM"
  ELSE "LOW"

\* C16 (ScoreSpec): determinePriority returns HIGH if (fast path and finalScore
\* >= 70) or finalScore >= 80 or (liquidity >= 50 and finalScore >= 70),
\* otherwise MEDIUM if finalScore >= 70, otherwise LOW.
C16_PriorityTable ==
  Classified =>
    result.priority = ClaimedPriority(args.finalScore, args.event.liq, args.isFastCheck)

\* finalScore 73, liquidity 45, standard path: MEDIUM.
C16_Witness ==
  /\ Classified
  /\ args.finalScore = 73 /\ args.event.liq = 45 /\ ~args.isFastCheck
  /\ result.priority = "MEDIUM"

\* The score of the arguments of the state with another liquidity, another riskScore.
WithLiquidity(liq) == calculateFinalScore([liq |-> liq], args.security, args.isFastCheck)
WithRisk(risk) ==
  calculateFinalScore(args.event, [args.security EXCEPT !.riskScore = risk], args.isFastCheck)

\* C17 (ScoreSpec): with the other inputs fixed, a larger liquidity never gives a
\* smaller finalScore and a larger riskScore never gives a larger finalScore.
C17_Monotonicity ==
  Scored =>
    /\ \A liq \in ScoreLiquidities : liq > args.event.liq => WithLiquidity(liq) >= result.finalScore
    /\ \A risk \in 0 .. ScoreMaxRisk :
         risk > args.security.riskScore => WithRisk(risk) <= result.finalScore

\* A score that a larger liquidity raises and a larger riskScore lowers.
C17_Witness ==
  /\ Scored
  /\ args.event.liq = 9 /\ args.security.riskScore = 28
  /\ WithLiquidity(45) > result.finalScore
  /\ WithRisk(29) < result.finalScore

\* ----------------------------------------------------- DecisionCore claims
\* A step in which a suspended processToken takes the report of the Guard.
Resumes == gpc = "done" /\ gpc' = "idle"

\* A step in which the listeners of the core run on the events of a pool.
Enters == coreOp'.name = "events" /\ gpc' = gpc

\* A step in which a suspended processToken runs to its end, from the report of
\* the Guard or from its exception.
Settles == gpc \in {"done", "threw"} /\ gpc' = "idle"

Rejection(e, mint) == e.ev = "tokenRejected" /\ e.mint = mint /\ e.reason # ""

\* The positive outcomes of the honeypot check that the claim lists: no route,
\* zero quoted output, failed simulation, transfer denial in the simulation log.
HoneypotPositive(r) ==
  \/ r.quote = "throws"
  \/ r.quote = "zero"
  \/ r.quote = "ok" /\ r.swap = "ok" /\ r.simulation \in {"err", "denied"}

\* C11 (CoreSpec): when the honeypot check of an analysis was positive, its report
\* has riskScore 100 and isSafe false, and the processToken that takes it only
\* rejects: one tokenRejected, no tokenScored, no readyToSnipe, nothing accepted.
C11_HoneypotRejected ==
  [][(gpc = "done" /\ HoneypotPositive(g.honeypotRead)) =>
       /\ report.riskScore = 100
       /\ ~report.isSafe
       /\ gpc' = "idle" =>
            /\ Len(coreEmits') = 1
            /\ Rejection(coreEmits'[1], coreOp'.call.sig)
            /\ tokensAccepted' = tokensAccepted
            /\ tokensRejected' = tokensRejected + 1]_vars

\* A honeypot of liquidity 100 rejected on the fast path by a core whose
\* maxRiskScore is 100, the highest riskScore there is.
C11_Witness ==
  /\ coreOp.name = "resumed"
  /\ coreOp.security.details.isHoneypot
  /\ coreOp.security.riskScore = 100
  /\ maxRiskScore = 100
  /\ coreOp.call.fast /\ coreOp.call.liq = 100
  /\ Len(coreEmits) = 1 /\ coreEmits[1].ev = "tokenRejected"

\* C12 (CoreSpec): an event whose liquidity is below minLiquidity is rejected with
\* a reason by the step that receives it, and no call of the Guard is left
\* pending for it; an event whose liquidity is minLiquidity or more is not
\* rejected by that step and waits for the Guard.
C12_LiquidityFloor ==
  [][Enters =>
       LET n == tokensProcessed' - tokensProcessed
           event == coreOp'.call
       IN IF event.liq < minLiquidity
            THEN /\ calls' = calls
                 /\ tokensRejected' = tokensRejected + n
                 /\ Len(coreEmits') = n
                 /\ \A i \in 1 .. n : Rejection(coreEmits'[i], event.sig)
                 /\ UNCHANGED guardVars
            ELSE /\ NumCalls(calls') = NumCalls(calls) + n
                 /\ \A call \in Calls : calls'[call] # calls[call] =>
                      call.sig = event.sig /\ call.liq = event.liq
                 /\ tokensRejected' = tokensRejected
                 /\ coreEmits' = <<>>]_vars

\* An event below the floor rejected while an event of exactly minLiquidity
\* waits for the Guard.
C12_Witness ==
  /\ coreOp.name = "events"
  /\ coreOp.call.liq < minLiquidity
  /\ Len(coreEmits) = 1 /\ coreEmits[1].ev = "tokenRejected"
  /\ \E call \in Calls : calls[call] > 0 /\ call.liq = minLiquidity

\* C13 (CoreSpec): a report with riskScore > maxRiskScore or isSafe false makes the
\* processToken that takes it reject with a reason, without scoring or
\* accepting; every readyToSnipe carries a report with isSafe true and
\* riskScore <= maxRiskScore.
C13_RiskGate ==
  [][/\ (Resumes /\ (report.riskScore > maxRiskScore \/ ~report.isSafe)) =>
          /\ Len(coreEmits') = 1
          /\ Rejection(coreEmits'[1], coreOp'.call.sig)
          /\ tokensAccepted' = tokensAccepted
          /\ tokensRejected' = tokensRejected + 1
     /\ \A i \in 1 .. Len(coreEmits') :
          coreEmits'[i].ev = "readyToSnipe" =>
            /\ coreEmits'[i].token.security.isSafe
            /\ coreEmits'[i].token.security.riskScore <= maxRiskScore]_vars

\* A report that is safe for the Guard, rejected for its riskScore alone.
C13_Witness ==
  /\ coreOp.name = "resumed"
  /\ coreOp.security.isSafe
  /\ coreOp.security.riskScore > maxRiskScore
  /\ Len(coreEmits) = 1 /\ coreEmits[1].ev = "tokenRejected"

\* The final score of the call that resumes, from its event and the report.
ResumedScore == calculateFinalScore(coreOp'.call, report, coreOp'.call.fast)

\* C14 (CoreSpec): an event past the liquidity and risk gates is accepted
\* (tokensAccepted incremented, readyToSnipe emitted) if and only if its
\* finalScore is at least 70, or at least 60 on the fast path; otherwise it is
\* rejected with a reason.
C14_Admission ==
  [][(Resumes /\ report.riskScore <= maxRiskScore /\ report.isSafe) =>
       LET last == coreEmits'[Len(coreEmits')] IN
       IF ResumedScore >= 70 \/ (coreOp'.call.fast /\ ResumedScore >= 60)
         THEN /\ tokensAccepted' = tokensAccepted + 1
              /\ tokensRejected' = tokensRejected
              /\ last.ev = "readyToSnipe"
              /\ last.mint = coreOp'.call.sig
              /\ last.token.finalScore = ResumedScore
         ELSE /\ tokensAccepted' = tokensAccepted
              /\ tokensRejected' = tokensRejected + 1
              /\ Rejection(last, coreOp'.call.sig)
              /\ \A i \in 1 .. Len(coreEmits') : coreEmits'[i].ev # "readyToSnipe"]_vars

\* A finalScore of 62 accepted on the fast path.
C14_Witness ==
  /\ coreOp.name = "resumed"
  /\ coreOp.call.fast
  /\ Len(coreEmits) = 2
  /\ coreEmits[2].ev = "readyToSnipe"
  /\ coreEmits[2].token.finalScore = 62

\* A finalScore of 62 rejected on the standard path.
C14_StandardPath62 ==
  /\ coreOp.name = "resumed"
  /\ ~coreOp.call.fast
  /\ Len(coreEmits) = 2
  /\ coreEmits[1].ev = "tokenScored" /\ coreEmits[1].token.finalScore = 62
  /\ coreEmits[2].ev = "tokenRejected"

\* The gates run on a core that has processed nothing.
Fresh == [processed |-> 0, accepted |-> 0, rejected |-> 0, calls |-> NoCalls, emits |-> <<>>]
Decision(call, security) == gates(Fresh, call, security)

\* C18 (CoreSpec): the configuration never changes, and what a processToken does
\* with a report (the events it emits, with their finalScore and priority, and
\* the counter it increments) is what the gates do with the same event, report
\* and path on a core that has processed nothing: it does not depend on the
\* counters or on the events handled before or meanwhile.
C18_Determinism ==
  [][/\ UNCHANGED <<minLiquidity, maxRiskScore, enableFastCheck>>
     /\ Resumes =>
          /\ coreEmits' = Decision(coreOp'.call, report).emits
          /\ tokensAccepted' - tokensAccepted = Decision(coreOp'.call, report).accepted
          /\ tokensRejected' - tokensRejected = Decision(coreOp'.call, report).rejected]_vars

\* A second token scored by a core that has already accepted one.
C18_Witness ==
  /\ coreOp.name = "resumed"
  /\ tokensAccepted = 2
  /\ Len(coreEmits) = 2
  /\ coreEmits[1].token.priority = "HIGH"

\* The number of events of a name among the events of a step.
Count(events, name) == Cardinality({i \in 1 .. Len(events) : events[i].ev = name})

\* C19 (CoreSpec): the processed events are the accepted, the rejected and those
\* in flight, so accepted + rejected <= processed with equality when none is in
\* flight; a step counts each event once, an event that resumes as accepted or
\* rejected and never both; every rejection counted is a tokenRejected with
\* the mint and a non-empty reason.
C19_Counters ==
  [][/\ tokensAccepted + tokensRejected + NumCalls(calls) = tokensProcessed
     /\ tokensAccepted' + tokensRejected' + NumCalls(calls') = tokensProcessed'
     /\ tokensAccepted' + tokensRejected' <= tokensProcessed'
     /\ tokensProcessed' - tokensProcessed =
          IF Enters
            THEN Count(PoolEvents(coreOp'.call.sig, coreOp'.call.liq, fastCheckThreshold), "newToken")
                 + B2N(enableFastCheck)
                   * Count(PoolEvents(coreOp'.call.sig, coreOp'.call.liq, fastCheckThreshold),
                           "fastCheck")
            ELSE 0
     /\ Settles =>
          /\ (tokensAccepted' - tokensAccepted) + (tokensRejected' - tokensRejected) = 1
          /\ tokensAccepted' >= tokensAccepted
          /\ tokensRejected' >= tokensRejected
     /\ IF Enters \/ Settles
          THEN /\ tokensRejected' - tokensRejected = Count(coreEmits', "tokenRejected")
               /\ tokensAccepted' - tokensAccepted = Count(coreEmits', "readyToSnipe")
               /\ \A i \in 1 .. Len(coreEmits') :
                    coreEmits'[i].ev = "tokenRejected" =>
                      coreEmits'[i].mint = coreOp'.call.sig /\ coreEmits'[i].reason # ""
          ELSE UNCHANGED <<tokensAccepted, tokensRejected>>]_vars

\* Nothing in flight after an acceptance and a rejection.
C19_Witness ==
  /\ tokensProcessed = 2 /\ tokensAccepted = 1 /\ tokensRejected = 1
  /\ NumCalls(calls) = 0
  /\ coreOp.name \in {"resumed", "caught"}

\* C20 (CoreSpec): a processToken that reaches scoring emits tokenScored once, and
\* before its readyToSnipe or its tokenRejected; a readyToSnipe carries the
\* ScoredToken of the tokenScored just before it; a processToken that does not
\* reach scoring emits no tokenScored.
C20_ScoredBeforeDecision ==
  [][/\ (Resumes /\ report.riskScore <= maxRiskScore /\ report.isSafe) =>
          /\ Len(coreEmits') = 2
          /\ coreEmits'[1].ev = "tokenScored"
          /\ coreEmits'[1].mint = coreOp'.call.sig
          /\ coreEmits'[2].ev \in {"readyToSnipe", "tokenRejected"}
          /\ coreEmits'[2].mint = coreOp'.call.sig
     /\ \A i \in 1 .. Len(coreEmits') :
          coreEmits'[i].ev = "readyToSnipe" =>
            /\ i > 1
            /\ coreEmits'[i - 1].ev = "tokenScored"
            /\ coreEmits'[i - 1].token = coreEmits'[i].token
     /\ (Enters \/ Settles) =>
          Count(coreEmits', "tokenScored") =
            B2N(Resumes /\ report.riskScore <= maxRiskScore /\ report.isSafe)]_vars

\* A token scored and then rejected for its score.
C20_Witness ==
  /\ coreOp.name = "resumed"
  /\ Len(coreEmits) = 2
  /\ coreEmits[1].ev = "tokenScored"
  /\ coreEmits[2].ev = "tokenRejected"
  /\ coreEmits[2].reason = "Score insuffisant"

\* ------------------------------------------------- ingestion claims (2)
\* The events of a name among the events of a step, in their order.
Named(events, name) == SelectSeq(events, LAMBDA e : e.ev = name)

\* C21 (DedupSpec): a decode that succeeds emits exactly one newToken, and exactly
\* one fastCheck with the same signature and liquidity if and only if the
\* liquidity is at least fastCheckThreshold; no other step emits either.
C21_DecodedStep ==
  IF lastOp'.name = "decoded"
    THEN /\ Len(Named(emits', "newToken")) = 1
         /\ Named(emits', "newToken")[1].sig = lastOp'.sig
         /\ IF Named(emits', "newToken")[1].liq >= fastCheckThreshold
              THEN /\ Len(Named(emits', "fastCheck")) = 1
                   /\ Named(emits', "fastCheck")[1].sig = lastOp'.sig
                   /\ Named(emits', "fastCheck")[1].liq = Named(emits', "newToken")[1].liq
              ELSE Named(emits', "fastCheck") = <<>>
         /\ Len(emits') = Len(Named(emits', "newToken")) + Len(Named(emits', "fastCheck"))
    ELSE Named(emits', "newToken") = <<>> /\ Named(emits', "fastCheck") = <<>>

C28_RedeliveryStep ==
  \A sig \in Sigs :
    (inflight[sig] > 0 /\ lastOp'.sig = sig /\ lastOp'.name \in {"pool", "duplicate"}) =>
      /\ lastOp'.name = "duplicate"
      /\ inflight' = inflight
      /\ processedPools' = processedPools

C28_InsertBeforeDecode == [][C28_RedeliveryStep]_vars

\* What holds of C28: the record is inserted by the step that starts the fetch,
\* and a redelivery is dropped for as long as the record is in the cache.
C28_RecordedStep ==
  /\ lastOp'.name = "pool" =>
       /\ isPoolProcessed(processedPools', lastOp'.sig)
       /\ inflight'[lastOp'.sig] = inflight[lastOp'.sig] + 1
  /\ \A sig \in Sigs :
       (isPoolProcessed(processedPools, sig) /\ lastOp'.sig = sig
        /\ lastOp'.name \in {"pool", "duplicate"}) =>
         /\ lastOp'.name = "duplicate"
         /\ inflight' = inflight
         /\ processedPools' = processedPools

C28_WhileRecorded == [][C28_RecordedStep]_vars

\* The decodes that fail: transaction not found, failed on chain, fewer than
\* seven account keys, fetch throwing.
DecodeFailures == {"notFound", "txFailed", "fewAccounts", "throws"}

\* C24 (DedupSpec): a decode that fails ends in its own step: it emits neither
\* newToken nor fastCheck (a fetch that throws emits 'error' and nothing
\* else), it changes no field of the scanner and no stream, so that the
\* streams that delivered messages before it deliver them after it.
C24_FailedDecodeStep ==
  lastOp'.name \in DecodeFailures =>
    /\ inflight'[lastOp'.sig] = inflight[lastOp'.sig] - 1
    /\ emits' = (IF lastOp'.name = "throws" THEN <<Ev("error")>> ELSE <<>>)
    /\ UNCHANGED <<scannerFields, orphanStreams, liveIntervals, reconnectTimers, connecting>>
    /\ CanDeliver' = CanDeliver

C29_DiscardedStep ==
  lastOp'.name \in {"noTransaction", "noLogs", "noMarker", "noSignature"} =>
    /\ processedPools' = processedPools
    /\ inflight' = inflight
    /\ emits' = <<>>
    /\ UNCHANGED <<scannerFields, runtimeVars>>

C29_NoMarkerNoWork == [][C29_DiscardedStep]_vars

\* A message without the marker discarded by a scanner whose cache holds a record.
C29_Witness ==
  /\ lastOp.name = "noMarker"
  /\ Len(processedPools) = 1
  /\ NumInflight = 1
  /\ emits = <<>>

\* The entries of a cache that a sweep at time t keeps, as the claim words it.
Fresh30(pools, t, ttl) == {i \in 1 .. Len(pools) : t - pools[i].timestamp <= ttl}

\* kept is pools restricted to the indices of keep, in the same order.
Restricted(kept, pools, keep) ==
  /\ Len(kept) = Cardinality(keep)
  /\ \A i \in 1 .. Len(kept) :
       \E j \in keep : kept[i] = pools[j] /\ Cardinality({k \in keep : k < j}) = i - 1

\* C30 (DedupSpec): a sweep removes exactly the entries whose age exceeds
\* cacheTtlMs and keeps the others in their order, whatever the size of the
\* cache; a signature delivered when it has no entry is inserted and fetched.
C30_SweepStep ==
  /\ lastOp'.name = "cleanupCache" =>
       /\ Restricted(processedPools', processedPools, Fresh30(processedPools, now, cacheTtlMs))
       /\ UNCHANGED <<inflight, cacheSize, cacheTtlMs, now>>
       /\ emits' = <<>>
  /\ \A sig \in Sigs :
       (~isPoolProcessed(processedPools, sig) /\ lastOp'.sig = sig
        /\ lastOp'.name \in {"pool", "duplicate"}) =>
         /\ lastOp'.name = "pool"
         /\ processedPools'[Len(processedPools')] = [poolId |-> sig, timestamp |-> now]
         /\ inflight'[sig] = inflight[sig] + 1

C30_SweepRemovesExpired == [][C30_SweepStep]_vars

\* Signature 1, swept two ticks after its insertion, delivered again and taken
\* as new, while the entry of signature 2, one tick old, has stayed.
C30_Witness ==
  /\ cacheSize = 2 /\ cacheTtlMs = 1 /\ now = 2
  /\ lastOp = OpSig("pool", 1)
  /\ processedPools = <<[poolId |-> 2, timestamp |-> 1], [poolId |-> 1, timestamp |-> 2]>>
  /\ seenSigs = 2


\* ------------------------------------------------------ configuration claims
\* The value a constructor is claimed to give a field: the configured value
\* when the option is provided, the default otherwise.
Configured(option, default) == IF option = Undefined THEN default ELSE option

Constructed == result # NoResult

\* C27: a configured value is applied as given, 0 included, and the default (5,
\* 50, 100, 10000, 3600000) is used only when the option is not provided, for
\* minLiquidity, maxRiskScore and fastCheckThreshold of DecisionCore and for
\* fastCheckThreshold, cacheSize and cacheTtlMs of MarketScanner.
C27_ConfiguredValuesApplied ==
  Constructed =>
    IF args.fn = "DecisionCore"
      THEN /\ result.minLiquidity = Configured(args.options.minLiquidity, DefaultMinLiquidity)
           /\ result.maxRiskScore = Configured(args.options.maxRiskScore, DefaultMaxRiskScore)
           /\ result.scanner.fastCheckThreshold
                = Configured(args.options.fastCheckThreshold, DefaultFastCheckThreshold)
      ELSE /\ result.fastCheckThreshold
                = Configured(args.options.fastCheckThreshold, DefaultFastCheckThreshold)
           /\ result.cacheSize = Configured(args.options.cacheSize, DefaultCacheSize)
           /\ result.cacheTtlMs = Configured(args.options.cacheTtlMs, DefaultCacheTtlMs)

\* The same statement for options that are absent or not 0: it holds.
NonZero(options, fields) == \A f \in fields : options[f] # 0

C27_ExceptZero ==
  (Constructed /\ NonZero(args.options, DOMAIN args.options \ {"enableFastCheck"}))
    => C27_ConfiguredValuesApplied


\* ------------------------------------------------- DecisionCore claims (2)
\* A step in which a suspended processToken takes the exception of the Guard.
Catches == gpc = "threw" /\ gpc' = "idle"

\* C25 (CoreSpec): when guard.validateToken throws, the processToken that awaited
\* it still completes and rejects its event exactly once: the call is no longer
\* suspended, tokensRejected is incremented by one, one tokenRejected with the
\* mint and the reason of an error is emitted, and there is no tokenScored, no
\* readyToSnipe and no acceptance.
C25_GuardExceptionRejects ==
  [][Catches =>
       /\ calls[coreOp'.call] > 0
       /\ calls' = [calls EXCEPT ![coreOp'.call] = @ - 1]
       /\ tokensRejected' = tokensRejected + 1
       /\ tokensAccepted' = tokensAccepted
       /\ tokensProcessed' = tokensProcessed
       /\ coreEmits' = <<CoreEv("tokenRejected", coreOp'.call.sig, "Erreur", NoToken)>>]_vars

\* An exception of the Guard taken by a call of the fast path while the standard
\* call of the same event is still suspended.
C25_Witness ==
  /\ coreOp.name = "caught"
  /\ coreOp.call.fast
  /\ calls[[coreOp.call EXCEPT !.fast = FALSE]] = 1
  /\ tokensRejected = 1
  /\ Count(coreEmits, "tokenRejected") = 1

\* The two runs a pool can get: processToken with and without the fast-path flag.
Run(call, isFastCheck) == [call EXCEPT !.fast = isFastCheck]

\* What the listeners do with a pool that gets `runs` runs: each run counts the
\* event, and either stops at the liquidity floor with a rejection or suspends
\* at a Guard call of its own.
C22_Runs(pool, runs) ==
  /\ tokensProcessed' = tokensProcessed + Cardinality(runs)
  /\ IF pool.liq < minLiquidity
       THEN /\ calls' = calls
            /\ tokensRejected' = tokensRejected + Cardinality(runs)
       ELSE /\ calls' = [call \in Calls |->
                           IF \E f \in runs : call = Run(pool, f) THEN calls[call] + 1
                           ELSE calls[call]]
            /\ tokensRejected' = tokensRejected

Alone(call) ==
  IF gpc = "threw" THEN rejectToken(Fresh, call.sig, "Erreur") ELSE Decision(call, report)

\* Some processToken is suspended at its Guard call.
Pending == NumCalls(calls) > 0

\* C23 (CoreSpec): the runs of different events interleave at the Guard await.
\* An event that arrives while others are suspended is counted, and rejected at
\* the floor or suspended, in the step of its arrival.  A run that ends while
\* others are suspended does what it does alone (the same events, finalScore,
\* priority and counter), leaves the others suspended, and the counters move by
\* that outcome only, so that they are the sum of the outcomes.
C23_IndependentRuns ==
  [][/\ (Enters /\ Pending) =>
          /\ \A call \in Calls : calls'[call] >= calls[call]
          /\ tokensProcessed' - tokensProcessed
               = (NumCalls(calls') - NumCalls(calls)) + (tokensRejected' - tokensRejected)
          /\ tokensProcessed' > tokensProcessed
          /\ tokensAccepted' = tokensAccepted
     /\ (Settles /\ NumCalls(calls) > 1) =>
          /\ coreEmits' = Alone(coreOp'.call).emits
          /\ tokensAccepted' = tokensAccepted + Alone(coreOp'.call).accepted
          /\ tokensRejected' = tokensRejected + Alone(coreOp'.call).rejected
          /\ tokensProcessed' = tokensProcessed
          /\ calls' = [calls EXCEPT ![coreOp'.call] = @ - 1]
     /\ ~(Enters \/ Settles) =>
          UNCHANGED <<tokensProcessed, tokensAccepted, tokensRejected, calls>>]_vars

\* An event of liquidity 50 is accepted while the run of another event, of
\* liquidity 7, is still suspended.
C23_Witness ==
  /\ coreOp.name = "resumed"
  /\ coreOp.call.liq = 50
  /\ Count(coreEmits, "readyToSnipe") = 1
  /\ \E call \in Calls : call.liq = 7 /\ calls[call] = 1
  /\ tokensProcessed = 2 /\ tokensAccepted = 1 /\ tokensRejected = 0


\* ------------------------------------------------------- shutdown claims
\* A step in which the core emits readyToSnipe.
HandsOver == Settles /\ Count(coreEmits', "readyToSnipe") > 0

\* C26 (PipelineSpec): once stop() of the core has completed, the decodes and
\* the analyses that were in flight may run to their end, but no readyToSnipe
\* is emitted until the core is started again.
C26_NothingAfterStop ==
  [][stopped => ~HandsOver]_vars

\* The same for the scanner: once stop() has completed, no decode that was in
\* flight hands an event to the listeners of the core.
C26_NoEventAfterStop ==
  [][stopped => ~(Enters /\ tokensProcessed' > tokensProcessed)]_vars


\* ------------------------------------------------------ ingestion claims (3)
\* C31 (DedupSpec): in every reachable state the dedup cache holds at most
\* cacheSize entries, whatever messages, sweeps, reconnects, stop() and start()
\* came before.
C31_CacheBounded == Len(processedPools) <= cacheSize

\* A full cache of two after a third signature was inserted into it, delivered
\* after a stop().
C31_Witness ==
  /\ cacheSize = 2
  /\ Len(processedPools) = 2
  /\ seenSigs = 3
  /\ lastOp = OpSig("pool", 3)
  /\ stopped


\* ----------------------------------------------------------- Guard claims (2)
\* The reads of a check in which a chain read or an API call fails.
HoldersFailed(r) ==
  ~r.rpc \/ (\E i \in 1 .. Len(r.accounts) : r.accounts[i] = -2) \/ ~r.mint
HoneypotFailed(r) ==
  \/ r.quote = "throws"
  \/ r.quote = "ok" /\ r.swap = "throws"
  \/ r.quote = "ok" /\ r.swap = "ok" /\ r.simulation = "throws"
PoolFailed(r) == ~r.rpc \/ (r.match /\ r.balance = -2)
LpLookupFailed(r) == ~r.rpc \/ (r.match /\ r.supply = -2)
LpFailed(r) == LpLookupFailed(r) \/ (r.match /\ r.sinkError)

\* The report of a call whose mint was read gives the failure defaults of the
\* holder, honeypot and pool checks, and 0 for the LP burn when `lpFailed`.
FailureDefaults(lpFailed) ==
  /\ gpc # "threw"
  /\ gpc = "done" =>
       /\ HoldersFailed(args.holders) =>
            /\ report.details.top10HoldersPercent = 0
            /\ ~Has(report.flags, "HIGH_CONCENTRATION")
       /\ HoneypotFailed(args.honeypot) =>
            /\ report.details.isHoneypot
            /\ Has(report.flags, "HONEYPOT_DETECTED")
            /\ g.riskScore >= HoneypotPenalty
            /\ report.riskScore = RiskCap
       /\ PoolFailed(args.pool) =>
            /\ ~report.details.hasLiquidity
            /\ Has(report.flags, "NO_LIQUIDITY_POOL")
            /\ g.riskScore >= NoPoolPenalty
       /\ lpFailed => report.details.lpBurnedPercent = 0

\* C32 (ChecksSpec): when a chain read or an API call of one of the four checks
\* after the authorities fails, analyzeToken still returns a report, in which a
\* failed holder enumeration gives top10HoldersPercent 0 and no penalty, a failed
\* quote, swap or simulation gives isHoneypot (+100), a failed pool lookup gives
\* hasLiquidity false (+40) and a failed LP-burn check gives lpBurnedPercent 0.
C32_FailureDefaults == FailureDefaults(LpFailed(args.lp))

\* The same with the LP-burn default only for a failed pool enumeration or a
\* failed read of the LP mint: it holds.
C32_ExceptBurnAddressRead == FailureDefaults(LpLookupFailed(args.lp))

\* The tags of a sequence of flags, and the tags the claim gives a report with
\* details d; lowLiquidity tells which pools count as low.
Tags(flags) == {flags[i] : i \in 1 .. Len(flags)}

ClaimedTags(d, lowLiquidity) ==
  (IF ~d.mintRenounced THEN {"MINT_AUTHORITY_NOT_RENOUNCED"} ELSE {})
  \cup (IF ~d.freezeDisabled THEN {"FREEZE_AUTHORITY_NOT_DISABLED"} ELSE {})
  \cup (IF d.top10HoldersPercent > 50 THEN {"HIGH_CONCENTRATION"} ELSE {})
  \cup (IF d.isHoneypot THEN {"HONEYPOT_DETECTED"} ELSE {})
  \cup (IF ~d.hasLiquidity THEN {"NO_LIQUIDITY_POOL"} ELSE {})
  \cup (IF d.hasLiquidity /\ lowLiquidity THEN {"LOW_LIQUIDITY"} ELSE {})

\* A report whose flags are the claimed tags, once each, never both liquidity
\* tags, with a riskScore that counts nothing for the mint authority.
FlagsAre(tags) ==
  /\ Tags(report.flags) = tags
  /\ Len(report.flags) = Cardinality(tags)
  /\ ~({"NO_LIQUIDITY_POOL", "LOW_LIQUIDITY"} \subseteq Tags(report.flags))
  /\ g.riskScore = FlagPenalties(report.flags)

\* C33 (GuardSpec): the flags of a report are exactly one tag per failed check:
\* MINT_AUTHORITY_NOT_RENOUNCED iff the mint authority is set (without penalty),
\* FREEZE_AUTHORITY_NOT_DISABLED iff the freeze authority is set,
\* HIGH_CONCENTRATION iff the top-10 share is above 50, HONEYPOT_DETECTED iff
\* honeypot, NO_LIQUIDITY_POOL iff no pool was found, LOW_LIQUIDITY iff a pool
\* was found with a balance below 5 SOL; never both liquidity tags.
C33_FlagsExact ==
  gpc = "done" =>
    FlagsAre(ClaimedTags(report.details, report.details.liquiditySol < Tenths(5)))

\* The same with LOW_LIQUIDITY for the balances below 5 SOL other than 0: it holds.
C33_ExceptEmptyVault ==
  gpc = "done" =>
    FlagsAre(ClaimedTags(report.details,
                         report.details.liquiditySol # 0
                           /\ report.details.liquiditySol < Tenths(5)))


\* ------------------------------------------------------ life-cycle claims (2)
\* The streams that deliver data, and the subscriptions being opened.
NumOpen == (IF geyserStream = "open" THEN 1 ELSE 0) + orphanStreams["open"]

\* C34 (Spec): at any time at most one stream subscription is active and at most
\* one reconnect timer is pending, whatever the interleaving of start() calls,
\* 'error' and 'end' events of the streams and reconnect timers.
C34_OneStreamOneTimer == NumOpen <= 1 /\ reconnectTimers <= 1

\* Its two halves.
C34_OneStream == NumOpen <= 1
C34_OneTimer == reconnectTimers <= 1


\* ------------------------------------------------- DecisionCore claims (3)
\* The run that resumes is a run of a pool that got both runs, under a
\* fastCheckThreshold of at least 100, and its report is safe.
SafeDoubleRun ==
  /\ Resumes
  /\ enableFastCheck
  /\ fastCheckThreshold >= 100
  /\ coreOp'.call.liq >= fastCheckThreshold
  /\ report.isSafe

\* The step emits one readyToSnipe, for the mint of the run that ends.
OneReadyToSnipe ==
  /\ Count(coreEmits', "readyToSnipe") = 1
  /\ \A i \in 1 .. Len(coreEmits') :
       coreEmits'[i].ev = "readyToSnipe" => coreEmits'[i].mint = coreOp'.call.sig
  /\ tokensAccepted' = tokensAccepted + 1

\* A run emits readyToSnipe at most once, in the step in which it ends, and no
\* other step emits one: a decoded pool gets at most one per path, two in all.
OncePerRun ==
  /\ Settles =>
       /\ Count(coreEmits', "readyToSnipe") <= 1
       /\ calls' = [calls EXCEPT ![coreOp'.call] = @ - 1]
  /\ Enters => Count(coreEmits', "readyToSnipe") = 0
  /\ ~(Settles \/ Enters) => tokensAccepted' = tokensAccepted

C35_StandardLast ==
  /\ coreOp.name = "resumed" /\ ~coreOp.call.fast /\ coreOp.call.liq = 100
  /\ fastCheckThreshold = 100
  /\ tokensProcessed = 2 /\ tokensAccepted = 2
  /\ Count(coreEmits, "readyToSnipe") = 1

\* The fast run that resumes belongs to a core with the default
\* fastCheckThreshold and maxRiskScore, and its report passes the risk gates.
DefaultFastRun ==
  /\ Resumes
  /\ coreOp'.call.fast
  /\ fastCheckThreshold = DefaultFastCheckThreshold
  /\ maxRiskScore = DefaultMaxRiskScore
  /\ report.riskScore <= maxRiskScore
  /\ report.isSafe

\* C36 (CoreSpec): with fastCheckThreshold 100 and maxRiskScore 50, a fastCheck
\* event of the scanner that passes the liquidity and risk gates has a
\* finalScore of at least 78, is accepted and has priority HIGH; its finalScore
\* is above the bar of the standard path, so the bar of 60 never decides.
C36_FastPathScores ==
  [][DefaultFastRun =>
       /\ coreOp'.call.liq >= DefaultFastCheckThreshold
       /\ ResumedScore >= 78
       /\ ResumedScore >= SnipeScore
       /\ Len(coreEmits') = 2
       /\ coreEmits'[1].ev = "tokenScored"
       /\ coreEmits'[1].token.finalScore = ResumedScore
       /\ coreEmits'[1].token.priority = "HIGH"
       /\ coreEmits'[2] = [coreEmits'[1] EXCEPT !.ev = "readyToSnipe"]
       /\ tokensAccepted' = tokensAccepted + 1
       /\ tokensRejected' = tokensRejected]_vars

\* A fast run accepted with a finalScore of exactly 78.
C36_Witness ==
  /\ coreOp.name = "resumed" /\ coreOp.call.fast
  /\ fastCheckThreshold = DefaultFastCheckThreshold
  /\ maxRiskScore = DefaultMaxRiskScore
  /\ Len(coreEmits) = 2
  /\ coreEmits[2].ev = "readyToSnipe"
  /\ coreEmits[2].token.finalScore = 78
  /\ coreEmits[2].token.priority = "HIGH"


\* ----------------------------------------------------------- Guard claims (3)
\* C37 (GuardSpec): a report with isSafe has a riskScore of 0, 20 or 30 and no
\* flag other than HIGH_CONCENTRATION and LOW_LIQUIDITY; hence a report whose
\* riskScore is above a maxRiskScore of 30 or more is not safe, and the event
\* the riskScore gate rejects would be rejected by the isSafe gate as well.
C37_SafeReports ==
  gpc = "done" =>
    /\ report.isSafe =>
         /\ report.riskScore \in {0, 20, 30}
         /\ Tags(report.flags) \subseteq {"HIGH_CONCENTRATION", "LOW_LIQUIDITY"}
    /\ \A limit \in 30 .. RiskCap : report.riskScore > limit => ~report.isSafe

\* A safe report with riskScore 30.
C37_Witness ==
  /\ gpc = "done"
  /\ report.isSafe
  /\ report.riskScore = 30
  /\ report.flags = <<"HIGH_CONCENTRATION">>


\* ------------------------------------------------------ DecisionCore claims (4)
\* C38 (PrioritySpec): an accepted asset has priority LOW exactly when it was
\* accepted on the fast path with a finalScore from 60 to 69; an asset accepted
\* on the standard path has priority MEDIUM or HIGH; and a tokenScored that is
\* followed by a rejection for its score carries priority LOW.
C38_Priorities ==
  [][(Resumes /\ report.riskScore <= maxRiskScore /\ report.isSafe) =>
       /\ Len(coreEmits') = 2
       /\ coreEmits'[1].ev = "tokenScored"
       /\ coreEmits'[1].token.finalScore = ResumedScore
       /\ LET priority == coreEmits'[1].token.priority
              fast == coreOp'.call.fast
          IN IF coreEmits'[2].ev = "readyToSnipe"
               THEN /\ coreEmits'[2].token.priority = priority
                    /\ priority = "LOW" <=> (fast /\ ResumedScore \in 60 .. 69)
                    /\ ~fast => priority \in {"MEDIUM", "HIGH"}
               ELSE /\ coreEmits'[2].ev = "tokenRejected"
                    /\ priority = "LOW"]_vars

\* An asset accepted on the standard path with priority MEDIUM.
C38_Witness ==
  /\ coreOp.name = "resumed" /\ ~coreOp.call.fast
  /\ Len(coreEmits) = 2
  /\ coreEmits[2].ev = "readyToSnipe"
  /\ coreEmits[2].token.priority = "MEDIUM"

\* An asset accepted on the fast path with priority LOW.
C38_FastLow ==
  /\ coreOp.name = "resumed" /\ coreOp.call.fast
  /\ Len(coreEmits) = 2
  /\ coreEmits[2].ev = "readyToSnipe"
  /\ coreEmits[2].token.priority = "LOW"

\* A tokenScored on the fast path followed by the rejection of its score.
C38_FastRejected ==
  /\ coreOp.name = "resumed" /\ coreOp.call.fast
  /\ Len(coreEmits) = 2
  /\ coreEmits[1].ev = "tokenScored" /\ coreEmits[1].token.priority = "LOW"
  /\ coreEmits[2].ev = "tokenRejected"


\* ------------------------------------------------- ingestion claims (3)
\* The cache holds a record of the signature.
Recorded(pools, sig) == \E i \in 1 .. Len(pools) : pools[i].poolId = sig

\* The processing of the signature ended without an emission: its record is in
\* the cache, no fetch of it is pending and none has emitted since the record
\* was inserted.
EndedSilent(sig) ==
  Recorded(processedPools, sig) /\ inflight[sig] = 0 /\ emitCount[sig] = 0

\* C39 (DedupSpec): a decode that fails (transaction not found, failed on chain,
\* fewer than seven account keys, fetch throwing) leaves the cache as it is, its
\* record included; a record leaves the cache only in a TTL sweep or in the
\* insertion of another signature into a full cache; and as long as the record
\* is there, a redelivery of the signature is dropped without a fetch.
C39_RetainedStep ==
  /\ lastOp'.name \in DecodeFailures => processedPools' = processedPools
  /\ \A sig \in Sigs :
       /\ (Recorded(processedPools, sig) /\ ~Recorded(processedPools', sig)) =>
            \/ lastOp'.name = "cleanupCache"
            \/ /\ lastOp'.name = "pool" /\ lastOp'.sig # sig
               /\ Len(processedPools) >= cacheSize
               /\ processedPools[1].poolId = sig
       /\ (EndedSilent(sig) /\ lastOp'.sig = sig /\ lastOp'.name \in {"pool", "duplicate"}) =>
            /\ lastOp'.name = "duplicate"
            /\ emits' = <<>>
            /\ UNCHANGED <<processedPools, inflight, emitCount>>

C39_FailureKeepsRecord == [][C39_RetainedStep]_vars

\* A redelivery dropped after the decode of the signature failed and another
\* signature was recorded.
C39_Witness ==
  /\ lastOp.name = "duplicate" /\ lastOp.sig = 1
  /\ inflight[1] = 0 /\ emitCount[1] = 0
  /\ Len(processedPools) = 2 /\ processedPools[1].poolId = 1


\* ------------------------------------------------------- PumpScanner claims
\* The signature is in the set.
Held(signatures, signature) == signature \in {signatures[i] : i \in 1 .. Len(signatures)}

\* The steps of handleLogs past the two early returns.
Delivered == pumpOp'.name \in {"duplicate", "processTransaction", "notCreate"}

\* C40 (PumpSpec): the dedup set of PumpScanner never holds more than 1000
\* signatures; a signature that arrives when it is not in the set is inserted
\* last, after the 500 inserted first have been removed if 1000 were present
\* (501 remain); and a signature is dropped as a duplicate exactly when it is
\* in the set, which it leaves unchanged, as does every other step.
C40_Step ==
  /\ Len(processedSignatures') <= 1000
  /\ IF Delivered
       THEN IF Held(processedSignatures, pumpOp'.sig)
              THEN pumpOp'.name = "duplicate" /\ processedSignatures' = processedSignatures
              ELSE /\ pumpOp'.name # "duplicate"
                   /\ IF Len(processedSignatures) = 1000
                        THEN /\ processedSignatures'
                                  = Append(SubSeq(processedSignatures, 501, 1000), pumpOp'.sig)
                             /\ Len(processedSignatures') = 501
                        ELSE processedSignatures' = Append(processedSignatures, pumpOp'.sig)
       ELSE processedSignatures' = processedSignatures

C40_SetBounded == [][C40_Step]_vars

\* The signature 1001 inserted into a set of 1000: 501 .. 1001 remain.
C40_Witness ==
  /\ pumpOp.name \in {"processTransaction", "notCreate"} /\ pumpOp.sig = 1001
  /\ Len(processedSignatures) = 501
  /\ processedSignatures[1] = 501
  /\ processedSignatures[501] = 1001

\* The signature 1, removed by the cleaning, delivered again and inserted.
C40_EvictedReturns ==
  /\ pumpOp.name \in {"processTransaction", "notCreate"} /\ pumpOp.sig = 1
  /\ Len(processedSignatures) = 502
  /\ processedSignatures[502] = 1

\* The signature 501, kept by the cleaning, delivered again and dropped.
C40_KeptIsDropped ==
  /\ pumpOp = OpSig("duplicate", 501)
  /\ Len(processedSignatures) = 501
  /\ processedSignatures[1] = 501

====
